---- MODULE Spec2Model ----
(***************************************************************************)
(* Model of the mock-interview application:                                *)
(*   - the LLM Gateway (gemini-utils part of src/Hi/src/lib/webrtc-utils.ts*)
(*     lines 225-690): credential, usage ledger, request queue, dispatcher,*)
(*     generateInterviewQuestion / generateInterviewFeedback;              *)
(*   - the Persistence Gateway (src/unnamed/part_001);                     *)
(*   - the Interview page (src/Hi/src/pages/Interview.tsx).                *)
(* Times are in milliseconds, as in the source.                            *)
(***************************************************************************)
EXTENDS Integers, Sequences, FiniteSets, TLC

(***************************************************************************)
(* Bounds of the model.                                                    *)
(***************************************************************************)
\* number of requests admitted to the queue in one behaviour
MaxCalls == 4
\* the ledger starts at 0 or within QuotaMargin requests of the daily quota
QuotaMargin == 1
\* granularity of the clock: one Tick advances time by ClockStep ms
ClockStep == 5000
\* longest transcript handed to generateInterviewFeedback
MaxTranscript == 1
\* most media fragments handed to storeRecording
MaxFragments == 1
\* most saveSession calls awaiting the remote store at one time
MaxPendingSaves == 2

\* completeInterview calls followed per page instance
MaxCompletions == 2

(***************************************************************************)
(* RATE_LIMIT and the other numeric constants of the gateway.              *)
(***************************************************************************)
requestsPerMinute == 12
maxRetries == 1
baseRetryDelay == 2000
dailyQuota == 1500
maxQueueSize == 3
\* const minInterval = 5000 in processQueue
minInterval == 5000
\* setTimeout(processQueue, 2000) in processQueue's finally
drainDelay == 2000
\* setTimeout(resolve, 33000) after a 429 in generateInterviewQuestion
longRetryDelay == 33000

VARIABLES
  \* ---- LLM Gateway ----
  envKey,         \* import.meta.env.VITE_GEMINI_API_KEY ("" when unset)
  sessionKey,     \* sessionStorage 'gemini_api_key' ("" when unset)
  apiKey,         \* module variable apiKey
  usage,          \* Usage Ledger: today's count in localStorage
  requestQueue,   \* RATE_LIMIT.requestQueue
  inProgress,     \* RATE_LIMIT.inProgress
  queueLock,      \* RATE_LIMIT.queueLock
  sinceLast,      \* Date.now() - RATE_LIMIT.lastRequestTime, capped at minInterval
  timers,         \* pending setTimeout callbacks of the dispatcher (a timer
                  \* fires at some time after it was set; delay is what was asked)
  running,        \* executions of request.fn() that have not settled yet
  nextId,         \* id of the next admitted request (numbered in enqueue order)
  lastCall,       \* the call made in the last step, if any, and its input
  done,           \* the call that settled in the last step, if any, and what it did
  lastDispatched, \* id of the request most recently taken from the queue
  \* ---- Persistence Gateway ----
  hasStore,       \* isFirebaseConfigured and db / storage are not null
  isLocalhost,    \* window.location.hostname is localhost or 127.0.0.1
  remoteDocs,     \* Firestore collection "sessions": sessionId -> document
  remoteObjects,  \* Storage objects recordings/{sessionId}.webm
  localSessions,  \* localStorage 'interviewSessions': sessionId -> snapshot
  store,          \* the storeRecording call under way, if any
  stored,         \* how the last storeRecording call settled
  saves,          \* saveSession calls awaiting setDoc
  lastSaved,      \* per sessionId, the record of the saveSession call that
                  \* completed last
  \* ---- Interview page ----
  activeTab,      \* useState activeTab
  session,        \* useState session
  isProcessing,   \* useState isProcessing of the page
  completions,    \* the completeInterview calls made, each with its closure
  pageEvent,      \* what the page did in the last step, if anything
  \* ---- InterviewSession view ----
  view,           \* state and refs of the mounted InterviewSession instance
  synth,          \* window.speechSynthesis: the utterance being spoken
  inFlight,       \* generateAIResponse calls of the view that are awaited
  sessionEvent,   \* what the view did in the last step, if anything
  \* ---- InterviewSetup form; applications of pure functions ----
  setup,          \* state of the InterviewSetup form and of its handleStart call
  applied         \* the function applied in the last step, its input and result

gatewayVars == <<envKey, sessionKey, apiKey, usage, requestQueue, inProgress,
                 queueLock, sinceLast, timers, running, nextId, lastCall, done,
                 lastDispatched>>

storeVars == <<hasStore, isLocalhost, remoteDocs, remoteObjects, localSessions,
               store, stored, saves, lastSaved>>

pageVars == <<activeTab, session, isProcessing, completions, pageEvent>>

sessionVars == <<view, synth, inFlight, sessionEvent>>

formVars == <<setup, applied>>

vars == <<gatewayVars, storeVars, pageVars, sessionVars, formVars>>

(***************************************************************************)
(* Helpers.                                                                *)
(***************************************************************************)
Min(a, b) == IF a < b THEN a ELSE b

Max(a, b) == IF a > b THEN a ELSE b

RECURSIVE Pow2(_)
Pow2(n) == IF n = 0 THEN 1 ELSE 2 * Pow2(n - 1)

\* s without its i-th element
RemoveAt(s, i) == SubSeq(s, 1, i - 1) \o SubSeq(s, i + 1, Len(s))

(***************************************************************************)
(* Strings are sequences of characters; " " is the only whitespace used.   *)
(***************************************************************************)
RECURSIVE TrimStart(_)
TrimStart(s) == IF s # <<>> /\ Head(s) = " " THEN TrimStart(Tail(s)) ELSE s

RECURSIVE TrimEnd(_)
TrimEnd(s) ==
  IF s # <<>> /\ s[Len(s)] = " " THEN TrimEnd(SubSeq(s, 1, Len(s) - 1)) ELSE s

\* String.prototype.trim
Trim(s) == TrimEnd(TrimStart(s))

Answers == { <<>>, <<" ">>, <<" ", "a">> }

\* transcripts are sequences of answers (the questions play no part here)
Transcripts == UNION { [1..n -> Answers] : n \in 0..MaxTranscript }

\* transcript.some((item) => item.answer.trim().length > 0)
hasValidAnswersNoTrim(transcript) ==
  \E i \in 1..Len(transcript) : Len(transcript[i]) > 0

hasValidAnswers(transcript) ==
  \E i \in 1..Len(transcript) : Len(Trim(transcript[i])) > 0

(***************************************************************************)
(* LLM Gateway: credential (webrtc-utils.ts 243-280).                      *)
(***************************************************************************)
NoKey == <<>>

\* keys a caller may hand to setGeminiApiKey
KeyInputs == { <<>>, <<" ">>, <<"k">>, <<"k", " ">> }

\* initApiKey: the value apiKey has after it ran
initApiKey(cur) ==
  IF envKey # NoKey THEN envKey
  ELSE IF sessionKey # NoKey THEN sessionKey
  ELSE cur

\* the credential check at the head of both generate functions
KeyAfterCheck == IF apiKey = NoKey THEN initApiKey(apiKey) ELSE apiKey

(***************************************************************************)
(* Remote responses.  status 0 stands for a fetch that fails at network    *)
(* level; body kinds: "unreadable" (reading the body throws), "malformed"  *)
(* (no candidates[0].content.parts[0].text), "text" (plain text, not       *)
(* JSON), "json" (a JSON object carrying overallScore = score).            *)
(***************************************************************************)
RemoteScores == {7}

Responses ==
  {[status |-> 0, kind |-> "unreadable", score |-> 0]}
  \cup {[status |-> 200, kind |-> k, score |-> 0] : k \in {"malformed", "text"}}
  \cup {[status |-> 200, kind |-> "json", score |-> s] : s \in RemoteScores}
  \cup {[status |-> c, kind |-> "text", score |-> 0] : c \in {401, 429, 500}}
  \cup {[status |-> 429, kind |-> "unreadable", score |-> 0]}

(***************************************************************************)
(* Results handed to the caller.                                           *)
(***************************************************************************)
GeneratedQuestion == [src |-> "generated", overallScore |-> 0]

\* getDefaultQuestion: a canned question
DefaultQuestion == [src |-> "fallback", overallScore |-> 0]

getDefaultFeedback == [src |-> "default", overallScore |-> 0]

NoAnswersFeedback == [src |-> "noanswers", overallScore |-> 0]

NoResult == [src |-> "none", overallScore |-> 0]

Fallback(kind) == IF kind = "question" THEN DefaultQuestion ELSE getDefaultFeedback

Return(r, result) ==
  [r EXCEPT !.pc = "returned", !.out = [outcome |-> "return", result |-> result]]

Throw(r) ==
  [r EXCEPT !.pc = "returned", !.out = [outcome |-> "throw", result |-> NoResult]]

Wait(r, delay) == [r EXCEPT !.pc = "wait", !.waits = Append(@, delay)]

(***************************************************************************)
(* makeRequest, up to its first await: trackApiUsage, the quota check and  *)
(* the fetch.  u is today's ledger count before the call.                  *)
(***************************************************************************)
trackApiUsageNoWrite(u) == u

\* trackApiUsage: today's count after the call; the write of the ledger to
\* localStorage is taken to succeed
trackApiUsage(u) == u + 1

AttemptNoReturn(r, u) ==
  [r |-> [r EXCEPT !.attempts = @ + 1,
                   !.usageAtStart = IF r.attempts = 0 THEN u ELSE @,
                   !.pc = "fetch", !.net = @ + 1],
   usage |-> trackApiUsage(u)]

Attempt(r, u) ==
  LET r1 == [r EXCEPT !.attempts = @ + 1,
                      !.usageAtStart = IF r.attempts = 0 THEN u ELSE @]
  IN  IF trackApiUsage(u) >= dailyQuota
      THEN [r |-> Return(r1, Fallback(r.kind)), usage |-> trackApiUsage(u)]
      ELSE [r |-> [r1 EXCEPT !.pc = "fetch", !.net = @ + 1],
            usage |-> trackApiUsage(u)]

(***************************************************************************)
(* makeRequest after the fetch settled with resp, up to the next await or  *)
(* the return (generateInterviewQuestion, lines 476-513).                  *)
(***************************************************************************)
QuestionOnHttpRetryLE(r, resp) ==
  IF resp.status # 200
  THEN IF resp.kind = "unreadable" THEN Return(r, DefaultQuestion)
       ELSE IF resp.status = 429
       THEN IF r.retries <= maxRetries
            THEN Wait(r, longRetryDelay)
            ELSE Return(r, DefaultQuestion)
       ELSE IF r.retries < maxRetries
            THEN Wait(r, baseRetryDelay * Pow2(r.retries))
            ELSE Return(r, DefaultQuestion)
  ELSE IF resp.kind \in {"unreadable", "malformed"}
       THEN Return(r, DefaultQuestion)
       ELSE Return(r, GeneratedQuestion)

\* the fetch resolved with an HTTP response
QuestionOnHttp(r, resp) ==
  IF resp.status # 200
  THEN IF resp.kind = "unreadable" THEN Return(r, DefaultQuestion)
       ELSE IF resp.status = 429
       THEN IF r.retries < maxRetries
            THEN Wait(r, longRetryDelay)
            ELSE Return(r, DefaultQuestion)
       ELSE IF r.retries < maxRetries
            THEN Wait(r, baseRetryDelay * Pow2(r.retries))
            ELSE Return(r, DefaultQuestion)
  ELSE IF resp.kind \in {"unreadable", "malformed"}
       THEN Return(r, DefaultQuestion)
       ELSE Return(r, GeneratedQuestion)

QuestionOnResponseRetries(r, resp) ==
  IF resp.status = 0
  THEN IF r.retries < maxRetries
       THEN Wait(r, baseRetryDelay * Pow2(r.retries))
       ELSE Return(r, DefaultQuestion)
  ELSE QuestionOnHttp(r, resp)

QuestionOnResponseNoCatch(r, resp) ==
  IF resp.status = 0 THEN Throw(r) ELSE QuestionOnHttp(r, resp)

\* the fetch rejected (caught at line 510) or resolved
QuestionOnResponse(r, resp) ==
  IF resp.status = 0 THEN Return(r, DefaultQuestion) ELSE QuestionOnHttp(r, resp)

FeedbackOnHttp429Retry(r, resp) ==
  IF resp.status # 200
  THEN IF resp.kind = "unreadable" THEN Return(r, getDefaultFeedback)
       ELSE IF resp.status = 429
       THEN IF r.retries < maxRetries
            THEN Wait(r, longRetryDelay)
            ELSE Return(r, getDefaultFeedback)
       ELSE IF r.retries < maxRetries
            THEN Wait(r, baseRetryDelay * Pow2(r.retries))
            ELSE Return(r, getDefaultFeedback)
  ELSE IF resp.kind \in {"unreadable", "malformed"}
       THEN Return(r, getDefaultFeedback)
       ELSE IF resp.kind = "text"
       THEN Return(r, getDefaultFeedback)
       ELSE Return(r, [src |-> "parsed", overallScore |-> resp.score])

FeedbackOnHttpRetryLE(r, resp) ==
  IF resp.status # 200
  THEN IF resp.kind = "unreadable" THEN Return(r, getDefaultFeedback)
       ELSE IF resp.status = 429 THEN Return(r, getDefaultFeedback)
       ELSE IF r.retries <= maxRetries
            THEN Wait(r, baseRetryDelay * Pow2(r.retries))
            ELSE Return(r, getDefaultFeedback)
  ELSE IF resp.kind \in {"unreadable", "malformed"}
       THEN Return(r, getDefaultFeedback)
       ELSE IF resp.kind = "text"
       THEN Return(r, getDefaultFeedback)
       ELSE Return(r, [src |-> "parsed", overallScore |-> resp.score])

(***************************************************************************)
(* The same for generateInterviewFeedback (lines 634-680).                 *)
(***************************************************************************)
FeedbackOnHttp(r, resp) ==
  IF resp.status # 200
  THEN IF resp.kind = "unreadable" THEN Return(r, getDefaultFeedback)
       ELSE IF resp.status = 429 THEN Return(r, getDefaultFeedback)
       ELSE IF r.retries < maxRetries
            THEN Wait(r, baseRetryDelay * Pow2(r.retries))
            ELSE Return(r, getDefaultFeedback)
  ELSE IF resp.kind \in {"unreadable", "malformed"}
       THEN Return(r, getDefaultFeedback)
       ELSE IF resp.kind = "text"
       THEN Return(r, getDefaultFeedback)
       ELSE Return(r, [src |-> "parsed", overallScore |-> resp.score])

FeedbackOnResponseNoCatch(r, resp) ==
  IF resp.status = 0 THEN Throw(r) ELSE FeedbackOnHttp(r, resp)

FeedbackOnResponse(r, resp) ==
  IF resp.status = 0 THEN Return(r, getDefaultFeedback) ELSE FeedbackOnHttp(r, resp)

OnResponse(r, resp) ==
  LET r1 == [r EXCEPT !.resps = Append(@, resp)]
  IN  IF r.kind = "question"
      THEN QuestionOnResponse(r1, resp)
      ELSE FeedbackOnResponse(r1, resp)

(***************************************************************************)
(* The dispatcher state as one record, so that the handlers compose.       *)
(***************************************************************************)
G == [queue |-> requestQueue, lock |-> queueLock, inProgress |-> inProgress,
      sinceLast |-> sinceLast, timers |-> timers, running |-> running,
      usage |-> usage, lastDispatched |-> lastDispatched]

SetG(g) ==
  /\ requestQueue' = g.queue
  /\ queueLock' = g.lock
  /\ inProgress' = g.inProgress
  /\ sinceLast' = g.sinceLast
  /\ timers' = g.timers
  /\ running' = g.running
  /\ usage' = g.usage
  /\ lastDispatched' = g.lastDispatched

NoOut == [outcome |-> "none", result |-> NoResult]

\* the execution of request.fn() for a queue entry, before it has run
NewRun(request) ==
  [id |-> request.id, kind |-> request.kind, atQuota |-> request.atQuota,
   usageAtStart |-> 0, retries |-> 0, pc |-> "new", net |-> 0, attempts |-> 0,
   resps |-> <<>>, waits |-> <<>>, out |-> NoOut]

Pop(queue) ==
  [request |-> queue[Len(queue)], rest |-> SubSeq(queue, 1, Len(queue) - 1)]

\* RATE_LIMIT.requestQueue.shift()
Shift(queue) == [request |-> Head(queue), rest |-> Tail(queue)]

processQueueNoLock(g) ==
  IF Len(g.queue) = 0 \/ g.inProgress >= requestsPerMinute
  THEN g
  ELSE IF g.sinceLast < minInterval /\ g.inProgress > 0
  THEN [g EXCEPT !.lock = TRUE,
                 !.timers = Append(@, [kind |-> "throttle",
                                       delay |-> minInterval - g.sinceLast])]
  ELSE LET sh == Shift(g.queue)
           a  == Attempt(NewRun(sh.request), g.usage)
       IN  [g EXCEPT !.lock = TRUE,
                     !.queue = sh.rest,
                     !.inProgress = @ + 1,
                     !.sinceLast = 0,
                     !.running = @ \cup {a.r},
                     !.usage = a.usage,
                     !.lastDispatched = sh.request.id]

(***************************************************************************)
(* processQueue (lines 343-386), up to the return of request.fn()'s        *)
(* synchronous part.                                                       *)
(***************************************************************************)
processQueue(g) ==
  IF g.lock \/ Len(g.queue) = 0 \/ g.inProgress >= requestsPerMinute
  THEN g
  ELSE IF g.sinceLast < minInterval /\ g.inProgress > 0
  THEN [g EXCEPT !.lock = TRUE,
                 !.timers = Append(@, [kind |-> "throttle",
                                       delay |-> minInterval - g.sinceLast])]
  ELSE LET sh == Shift(g.queue)
           a  == Attempt(NewRun(sh.request), g.usage)
       IN  [g EXCEPT !.lock = TRUE,
                     !.queue = sh.rest,
                     !.inProgress = @ + 1,
                     !.sinceLast = 0,
                     !.running = @ \cup {a.r},
                     !.usage = a.usage,
                     !.lastDispatched = sh.request.id]

(***************************************************************************)
(* queueRequest (lines 389-398).                                           *)
(***************************************************************************)
QueueFull(queue) == Len(queue) >= maxQueueSize

queueRequestNoReturn(g, request) ==
  [rejected |-> QueueFull(g.queue),
   g |-> processQueue([g EXCEPT !.queue = Append(@, request)])]

queueRequest(g, request) ==
  IF QueueFull(g.queue)
  THEN [rejected |-> TRUE, g |-> g]
  ELSE [rejected |-> FALSE,
        g |-> processQueue([g EXCEPT !.queue = Append(@, request)])]

(***************************************************************************)
(* What the caller of a generate function observes when its promise        *)
(* settles.                                                                *)
(***************************************************************************)
NoCall ==
  [id |-> 0, kind |-> "none", transcript |-> <<>>, keyed |-> FALSE,
   queueBefore |-> <<>>, usageBefore |-> 0]

\* a call of a generate function, with the gateway state it finds
Call(id, kind, transcript) ==
  [id |-> id, kind |-> kind, transcript |-> transcript,
   keyed |-> KeyAfterCheck # NoKey, queueBefore |-> requestQueue,
   usageBefore |-> usage]

NotDone ==
  [id |-> 0, kind |-> "none", outcome |-> "none", reason |-> "", result |-> NoResult,
   executed |-> FALSE, atQuota |-> FALSE, usageAtStart |-> 0, net |-> 0,
   attempts |-> 0, resps |-> <<>>, waits |-> <<>>]

\* settled before reaching request.fn(): nothing executed
Unexecuted(id, kind, outcome, reason, result) ==
  [NotDone EXCEPT !.id = id, !.kind = kind, !.outcome = outcome,
                  !.reason = reason, !.result = result]

\* request.fn() settled: .then(resolve) / .catch(reject)
Executed(r) ==
  [id |-> r.id, kind |-> r.kind,
   outcome |-> IF r.out.outcome = "return" THEN "resolved" ELSE "rejected",
   reason |-> IF r.out.outcome = "return" THEN "" ELSE "error",
   result |-> r.out.result, executed |-> TRUE, atQuota |-> r.atQuota,
   usageAtStart |-> r.usageAtStart, net |-> r.net, attempts |-> r.attempts,
   resps |-> r.resps, waits |-> r.waits]

(***************************************************************************)
(* Initial state of the gateway: the module has been loaded (initApiKey    *)
(* ran once), nothing is queued, lastRequestTime = 0 lies far in the past. *)
(***************************************************************************)
InitUsages == {0} \cup (Max(0, dailyQuota - QuotaMargin) .. dailyQuota)

GatewayIdle ==
  /\ requestQueue = <<>>
  /\ inProgress = 0
  /\ queueLock = FALSE
  /\ sinceLast = minInterval
  /\ timers = <<>>
  /\ running = {}
  /\ nextId = 1
  /\ lastCall = NoCall
  /\ done = NotDone
  /\ lastDispatched = 0

InitGateway ==
  /\ envKey \in {NoKey, <<"k">>}
  /\ sessionKey = NoKey
  /\ apiKey = initApiKey(envKey)
  /\ usage \in InitUsages
  /\ GatewayIdle

\* getGeminiApiKey / hasGeminiApiKey (lines 274-280)
hasGeminiApiKey == apiKey # NoKey \/ sessionKey # NoKey

(***************************************************************************)
(* setGeminiApiKey (lines 264-272).  Its one caller, handleStart of the    *)
(* setup form, calls it only while the form holds needsApiKey, that is     *)
(* while no credential is present.                                         *)
(***************************************************************************)
SetGeminiApiKey(key) ==
  /\ ~hasGeminiApiKey
  /\ IF Len(key) > 0 /\ Len(Trim(key)) > 0
     THEN apiKey' = Trim(key) /\ sessionKey' = Trim(key)
     ELSE UNCHANGED <<apiKey, sessionKey>>
  /\ lastCall' = NoCall
  /\ done' = NotDone
  /\ UNCHANGED <<envKey, usage, requestQueue, inProgress, queueLock, sinceLast,
                 timers, running, nextId, lastDispatched>>

(***************************************************************************)
(* validateApiKey (lines 299-340): a probe request made with the candidate *)
(* key, outside the queue and the ledger.  The result for a probe that     *)
(* settled with resp: true for a 2xx response; false for every other       *)
(* status, for a body that is not JSON (response.json() throws) and for a  *)
(* fetch that fails.                                                       *)
(***************************************************************************)
ProbeResponses ==
  {[status |-> 0, kind |-> "unreadable", score |-> 0]}
  \cup {[status |-> c, kind |-> "json", score |-> 0] : c \in {200, 401, 429, 500}}
  \cup {[status |-> 500, kind |-> "unreadable", score |-> 0]}

validateApiKeyNoStatus(resp) ==
  IF resp.status = 0 THEN FALSE ELSE TRUE

validateApiKey(resp) ==
  IF resp.status = 0 THEN FALSE
  ELSE IF resp.status # 200
  THEN IF resp.kind = "unreadable" THEN FALSE
       ELSE IF resp.status = 429 THEN FALSE
       ELSE IF resp.status = 401 THEN FALSE
       ELSE FALSE
  ELSE TRUE

\* a probe from its call to its result, as the gateway sees it: it reads and
\* writes none of the gateway's state.  Its one caller, handleStart, probes
\* only while the form holds needsApiKey.
ValidateApiKey(resp) ==
  /\ ~hasGeminiApiKey
  /\ lastCall' = [NoCall EXCEPT !.kind = "probe", !.usageBefore = usage]
  /\ done' = Unexecuted(0, "probe", "resolved",
                        IF validateApiKey(resp) THEN "valid" ELSE "invalid", NoResult)
  /\ UNCHANGED <<envKey, sessionKey, apiKey, usage, requestQueue, inProgress,
                 queueLock, sinceLast, timers, running, nextId, lastDispatched>>

\* the call reaches queueRequest with room in the queue (the model admits at
\* most MaxCalls requests; calls that are not admitted are not counted)
AdmitsQuestion == KeyAfterCheck # NoKey /\ ~QueueFull(requestQueue)

AdmitsFeedback(transcript) == AdmitsQuestion /\ hasValidAnswers(transcript)

(***************************************************************************)
(* generateInterviewQuestion (lines 407-517), up to the return of its      *)
(* promise.                                                                *)
(***************************************************************************)
GenerateInterviewQuestion ==
  /\ AdmitsQuestion => nextId <= MaxCalls
  /\ nextId' = IF AdmitsQuestion THEN nextId + 1 ELSE nextId
  /\ lastCall' = Call(nextId, "question", <<>>)
  /\ apiKey' = KeyAfterCheck
  /\ UNCHANGED <<envKey, sessionKey>>
  /\ IF KeyAfterCheck = NoKey
     THEN /\ done' = Unexecuted(nextId, "question", "rejected", "nokey", NoResult)
          /\ SetG(G)
     ELSE LET q == queueRequest(G, [id |-> nextId, kind |-> "question",
                                    atQuota |-> usage >= dailyQuota])
          IN  /\ SetG(q.g)
              /\ done' = IF q.rejected
                         THEN Unexecuted(nextId, "question", "rejected",
                                         "overloaded", NoResult)
                         ELSE NotDone

(***************************************************************************)
(* generateInterviewFeedback (lines 541-684), up to the return of its      *)
(* promise.                                                                *)
(***************************************************************************)
GenerateInterviewFeedback(transcript) ==
  /\ AdmitsFeedback(transcript) => nextId <= MaxCalls
  /\ nextId' = IF AdmitsFeedback(transcript) THEN nextId + 1 ELSE nextId
  /\ lastCall' = Call(nextId, "feedback", transcript)
  /\ apiKey' = KeyAfterCheck
  /\ UNCHANGED <<envKey, sessionKey>>
  /\ IF KeyAfterCheck = NoKey
     THEN /\ done' = Unexecuted(nextId, "feedback", "resolved", "", getDefaultFeedback)
          /\ SetG(G)
     ELSE IF ~hasValidAnswers(transcript)
     THEN /\ done' = Unexecuted(nextId, "feedback", "resolved", "", NoAnswersFeedback)
          /\ SetG(G)
     ELSE LET q == queueRequest(G, [id |-> nextId, kind |-> "feedback",
                                    atQuota |-> usage >= dailyQuota])
          IN  /\ SetG(q.g)
              /\ done' = IF q.rejected
                         THEN Unexecuted(nextId, "feedback", "rejected",
                                         "overloaded", NoResult)
                         ELSE NotDone

FinishNoTimer(r, r2) ==
  /\ done' = Executed(r2)
  /\ running' = running \ {r}
  /\ inProgress' = inProgress - 1
  /\ queueLock' = FALSE
  /\ timers' = timers

(***************************************************************************)
(* request.fn() of the running request r has settled as r2:                *)
(* .then / .catch / .finally of processQueue (lines 375-385).              *)
(***************************************************************************)
Finish(r, r2) ==
  /\ done' = Executed(r2)
  /\ running' = running \ {r}
  /\ inProgress' = inProgress - 1
  /\ queueLock' = FALSE
  /\ timers' = Append(timers, [kind |-> "drain", delay |-> drainDelay])

\* A running request r went on to r2 in a callback of its own (a fetch that
\* settled, a retry delay that elapsed).  If r2 has returned, the promise
\* callbacks of processQueue run in the microtasks of the same task.
Continue(r, r2) ==
  IF r2.pc = "returned"
  THEN Finish(r, r2)
  ELSE /\ running' = (running \ {r}) \cup {r2}
       /\ done' = NotDone
       /\ UNCHANGED <<inProgress, queueLock, timers>>

(***************************************************************************)
(* The fetch of a running request settles with resp.                       *)
(***************************************************************************)
Respond(r, resp) ==
  /\ r.pc = "fetch"
  /\ Continue(r, OnResponse(r, resp))
  /\ lastCall' = NoCall
  /\ UNCHANGED <<envKey, sessionKey, apiKey, usage, requestQueue, sinceLast,
                 nextId, lastDispatched>>

(***************************************************************************)
(* The retry delay of a running request has elapsed:                       *)
(* makeRequest(retries + 1).                                               *)
(***************************************************************************)
Retry(r) ==
  /\ r.pc = "wait"
  /\ LET a == Attempt([r EXCEPT !.retries = @ + 1], usage)
     IN  /\ Continue(r, a.r)
         /\ usage' = a.usage
  /\ lastCall' = NoCall
  /\ UNCHANGED <<envKey, sessionKey, apiKey, requestQueue, sinceLast, nextId,
                 lastDispatched>>

(***************************************************************************)
(* A request that returned within processQueue's own call of request.fn()  *)
(* (the quota check of its first attempt) settles once the running task    *)
(* has ended.                                                              *)
(***************************************************************************)
Settle(r) ==
  /\ r.pc = "returned"
  /\ Finish(r, r)
  /\ lastCall' = NoCall
  /\ UNCHANGED <<envKey, sessionKey, apiKey, usage, requestQueue, sinceLast,
                 nextId, lastDispatched>>

(***************************************************************************)
(* A dispatcher timer fires: the throttle timer of lines 357-360 releases *)
(* the lock first; both kinds call processQueue.                           *)
(***************************************************************************)
TimerFire(i) ==
  /\ LET g0 == [G EXCEPT !.timers = RemoveAt(timers, i)]
         g1 == IF timers[i].kind = "throttle" THEN [g0 EXCEPT !.lock = FALSE] ELSE g0
     IN  SetG(processQueue(g1))
  /\ lastCall' = NoCall
  /\ done' = NotDone
  /\ UNCHANGED <<envKey, sessionKey, apiKey, nextId>>

(***************************************************************************)
(* Time passes.                                                            *)
(***************************************************************************)
Tick ==
  /\ sinceLast < minInterval
  /\ sinceLast' = Min(sinceLast + ClockStep, minInterval)
  /\ lastCall' = NoCall
  /\ done' = NotDone
  /\ UNCHANGED <<envKey, sessionKey, apiKey, usage, requestQueue, inProgress,
                 queueLock, timers, running, nextId, lastDispatched>>

(***************************************************************************)
(* Persistence Gateway (db-service) and the Interview page.                *)
(***************************************************************************)
\* createSessionId(): the page instance creates one opaque identifier
SessionIds == {"s1"}

\* the values handleStart hands to startInterview; the role is never blank
Roles == {"Software Engineer"}

SkillLevels == {"Intermediate"}

JobDescriptions == {"", "Builds the storefront"}

\* a string reference is the sequence of its parts; "" is the empty sequence
NoRef == <<>>

\* getDownloadURL(ref(storage, `recordings/${sessionId}.webm`))
DownloadURL(sessionId) == <<"https://storage/recordings/", sessionId, ".webm">>

\* URL.createObjectURL(videoBlob)
ObjectURL == <<"blob:", "object">>

\* a stored session document; a field that is not set reads "undefined", an
\* unset recordingUrl reads NoRef and an unset isCompleted reads FALSE
NoDoc ==
  [sessionId |-> "none", role |-> "undefined", skillLevel |-> "undefined",
   jobDescription |-> "undefined", transcript |-> <<>>, isCompleted |-> FALSE,
   recordingUrl |-> NoRef, feedback |-> "undefined"]

\* useState<SessionType | null>(null)
NullSession ==
  [sessionId |-> "null", role |-> "undefined", skillLevel |-> "undefined",
   jobDescription |-> "undefined", transcript |-> <<>>, recording |-> 0,
   isCompleted |-> FALSE, recordingUrl |-> NoRef, feedback |-> "undefined"]

\* useState<boolean>(false); no component calls setIsRecording
isRecording == FALSE

StoreIdle ==
  [pc |-> "idle", sessionId |-> "none", blobs |-> 0, flow |-> "none",
   settled |-> TRUE, snapshot |-> NoDoc]

NotStored ==
  [outcome |-> "none", ref |-> NoRef, via |-> "none", sessionId |-> "none",
   blobs |-> 0]

NoEvent ==
  [kind |-> "none", origin |-> "none", outcome |-> "none", save |-> NoDoc,
   tabBefore |-> "none", sessionBefore |-> NullSession, completed |-> 0,
   raced |-> FALSE, remote |-> "none", toast |-> "none"]

\* the part of the state storeRecording works on
S ==
  [store |-> store, stored |-> stored, remoteDocs |-> remoteDocs,
   remoteObjects |-> remoteObjects]

SetS(s) ==
  /\ store' = s.store
  /\ stored' = s.stored
  /\ remoteDocs' = s.remoteDocs
  /\ remoteObjects' = s.remoteObjects

\* the promise storeRecording returned settles, unless it already has
SettleStore(s, outcome, ref, via) ==
  IF s.store.settled
  THEN s
  ELSE [s EXCEPT !.stored = [outcome |-> outcome, ref |-> ref, via |-> via,
                             sessionId |-> s.store.sessionId,
                             blobs |-> s.store.blobs],
                 !.store.settled = TRUE]

\* the upload chain has run to its end
Finished(s) == [s EXCEPT !.store = StoreIdle]

storageErrorRethrow(s, via) == Finished(SettleStore(s, "rejected", NoRef, via))

\* the catch blocks of storeRecording: each returns an object URL
storageError(s, via) == Finished(SettleStore(s, "resolved", ObjectURL, via))

\* storeRecording up to its first await
storeRecording(s, sessionId, blobs) ==
  LET s1 == [s EXCEPT !.store = [pc |-> "start", sessionId |-> sessionId,
                                 blobs |-> blobs, flow |-> "none",
                                 settled |-> FALSE, snapshot |-> NoDoc],
                      !.stored = NotStored]
  IN IF blobs = 0
     THEN storageError(s1, "empty")
     ELSE IF ~hasStore
     THEN Finished(SettleStore(s1, "resolved", ObjectURL, "unconfigured"))
     ELSE [s1 EXCEPT !.store.pc = "uploadBytes",
                     !.store.flow = IF isLocalhost THEN "localhost"
                                                   ELSE "production"]

\* the awaited remote operation of storeRecording settles: ok or with an error
storeRecordingResume(s, ok) ==
  LET id == s.store.sessionId
      pc == s.store.pc
  IN IF ~ok
     THEN storageError(s, pc)
     ELSE CASE pc = "uploadBytes" ->
                 [s EXCEPT !.remoteObjects = @ \cup {id},
                           !.store.pc = "getDownloadURL"]
            [] pc = "getDownloadURL" ->
                 IF s.store.flow = "localhost"
                 THEN Finished(SettleStore(s, "resolved", DownloadURL(id),
                                           "remote"))
                 ELSE [s EXCEPT !.store.pc = "getDoc"]
            [] pc = "getDoc" ->
                 IF s.remoteDocs[id] # NoDoc
                 THEN [s EXCEPT !.store.pc = "setDoc",
                                !.store.snapshot = s.remoteDocs[id]]
                 ELSE Finished(SettleStore(s, "resolved", DownloadURL(id),
                                           "remote"))
            [] pc = "setDoc" ->
                 Finished(SettleStore(
                   [s EXCEPT !.remoteDocs[id] =
                       [s.store.snapshot EXCEPT !.recordingUrl = DownloadURL(id)]],
                   "resolved", DownloadURL(id), "remote"))

\* the 5000 ms timer of the localhost race rejects; the catch returns an
\* object URL while the upload chain goes on unobserved
storeRecordingTimeout(s) == SettleStore(s, "resolved", ObjectURL, "timeout")

\* localStorage.setItem('interviewSessions', ...) of saveSession; the write
\* throws when the browser refuses it, and then again in the catch block
localWrite(local, data, ok) ==
  IF ok THEN [local EXCEPT ![data.sessionId] = data] ELSE local

\* saveSession up to its first await
saveSession(local, pending, data, origin, localOk) ==
  IF ~hasStore
  THEN [outcome |-> IF localOk THEN "resolved" ELSE "rejected",
        localSessions |-> localWrite(local, data, localOk),
        saves |-> pending]
  ELSE [outcome |-> "pending",
        localSessions |-> local,
        saves |-> Append(pending, [data |-> data, origin |-> origin,
                                   completion |-> 0])]

NotSaved(local, pending) ==
  [outcome |-> "none", localSessions |-> local, saves |-> pending]

startInterviewNoTab(role, skillLevel, jobDescription) ==
  [session |-> [session EXCEPT !.role = role, !.skillLevel = skillLevel,
                               !.jobDescription = jobDescription,
                               !.isCompleted = FALSE],
   activeTab |-> activeTab,
   saved |-> session # NullSession,
   save |-> [sessionId |-> session.sessionId, role |-> role,
             skillLevel |-> skillLevel, jobDescription |-> jobDescription,
             transcript |-> <<>>, isCompleted |-> FALSE,
             recordingUrl |-> NoRef, feedback |-> "undefined"]]

\* Interview.startInterview: the state it sets and the record it saves
startInterview(role, skillLevel, jobDescription) ==
  IF session # NullSession
  THEN [session |-> [session EXCEPT !.role = role, !.skillLevel = skillLevel,
                                    !.jobDescription = jobDescription,
                                    !.isCompleted = FALSE],
        activeTab |-> "session",
        saved |-> TRUE,
        save |-> [sessionId |-> session.sessionId, role |-> role,
                  skillLevel |-> skillLevel, jobDescription |-> jobDescription,
                  transcript |-> <<>>, isCompleted |-> FALSE,
                  recordingUrl |-> NoRef, feedback |-> "undefined"]]
  ELSE [session |-> session, activeTab |-> activeTab, saved |-> FALSE,
        save |-> NoDoc]

\* disabled= of the three TabsTrigger elements
TabEnabled(tab) ==
  CASE tab = "setup" -> ~(activeTab = "session" /\ isRecording)
    [] tab = "session" -> ~(session.role \in {"undefined", ""}
                            \/ (activeTab = "session" /\ isRecording))
    [] tab = "feedback" -> session.isCompleted

Tabs == {"setup", "session", "feedback"}

AppIdle ==
  /\ remoteDocs = [id \in SessionIds |-> NoDoc]
  /\ remoteObjects = {}
  /\ localSessions = [id \in SessionIds |-> NoDoc]
  /\ store = StoreIdle
  /\ stored = NotStored
  /\ saves = <<>>
  /\ lastSaved = [id \in SessionIds |-> NoDoc]
  /\ activeTab = "setup"
  /\ session = NullSession
  /\ isProcessing = FALSE
  /\ completions = <<>>
  /\ pageEvent = NoEvent

\* the feedback the view hands to onComplete
Feedbacks == {"feedback A", "feedback B"}

\* the part of the state the handlers of the page work on
Pg ==
  [session |-> session, activeTab |-> activeTab, isProcessing |-> isProcessing,
   completions |-> completions, localSessions |-> localSessions,
   saves |-> saves, lastSaved |-> lastSaved]

SetPg(pg) ==
  /\ session' = pg.session
  /\ activeTab' = pg.activeTab
  /\ isProcessing' = pg.isProcessing
  /\ completions' = pg.completions
  /\ localSessions' = pg.localSessions
  /\ saves' = pg.saves
  /\ lastSaved' = pg.lastSaved

\* a saveSession call has settled: the record it stored, when it resolved
Remember(saved, outcome, data) ==
  IF outcome = "resolved" THEN [saved EXCEPT ![data.sessionId] = data] ELSE saved

\* the completeInterview calls under way are overlapped by another handler
\* that sets the session
Raced(cs) ==
  [k \in 1..Len(cs) |->
     IF cs[k].pc # "done" THEN [cs[k] EXCEPT !.raced = TRUE] ELSE cs[k]]

\* the completion that ran to its end between two values of completions
Ended(before, after) ==
  IF \E k \in 1..Len(after) :
       after[k].pc = "done" /\ (k > Len(before) \/ before[k].pc # "done")
  THEN CHOOSE k \in 1..Len(after) :
         after[k].pc = "done" /\ (k > Len(before) \/ before[k].pc # "done")
  ELSE 0

\* recordingUrl of completeInterview (lines 82-94): "" when storeRecording
\* rejected
RecordingUrl(st) == IF st.outcome = "resolved" THEN st.ref ELSE NoRef

CompletedDocNoId(updatedSession) ==
  [sessionId |-> NoDoc.sessionId, role |-> updatedSession.role,
   skillLevel |-> updatedSession.skillLevel,
   jobDescription |-> updatedSession.jobDescription,
   recordingUrl |-> updatedSession.recordingUrl,
   transcript |-> updatedSession.transcript,
   feedback |-> updatedSession.feedback, isCompleted |-> TRUE]

\* the record completeInterview saves (lines 105-114)
CompletedDoc(updatedSession) ==
  [sessionId |-> updatedSession.sessionId, role |-> updatedSession.role,
   skillLevel |-> updatedSession.skillLevel,
   jobDescription |-> updatedSession.jobDescription,
   recordingUrl |-> updatedSession.recordingUrl,
   transcript |-> updatedSession.transcript,
   feedback |-> updatedSession.feedback, isCompleted |-> TRUE]

\* a completeInterview call that has run to its end
DoneCompletion ==
  [pc |-> "done", session |-> NullSession, feedback |-> "undefined",
   raced |-> FALSE]

completeInterviewAfterSaveThrows(pg, i, outcome) ==
  IF outcome = "rejected"
  THEN [pg EXCEPT !.completions[i] = DoneCompletion]
  ELSE [pg EXCEPT !.activeTab = "feedback", !.isProcessing = FALSE,
                  !.completions[i] = DoneCompletion]

\* completeInterview after await saveSession(...).catch(...) (lines 114-127)
\* and finally (lines 144-146); a rejection of saveSession ends in the catch
\* handler, which shows a toast
completeInterviewAfterSave(pg, i, outcome) ==
  [pg EXCEPT !.activeTab = "feedback", !.isProcessing = FALSE,
             !.completions[i] = DoneCompletion]

\* completeInterview from the point recordingUrl is known up to the await of
\* saveSession (lines 96-113); session is the one of the closure
completeInterviewSave(pg, i, recordingUrl, localOk) ==
  LET c == pg.completions[i]
      updatedSession == [c.session EXCEPT !.feedback = c.feedback,
                                          !.recordingUrl = recordingUrl,
                                          !.isCompleted = TRUE]
      sv == saveSession(pg.localSessions, pg.saves, CompletedDoc(updatedSession),
                        "completeInterview", localOk)
      pg1 == [pg EXCEPT !.session = updatedSession,
                        !.localSessions = sv.localSessions,
                        !.saves = IF sv.outcome = "pending"
                                  THEN [sv.saves EXCEPT ![Len(sv.saves)].completion = i]
                                  ELSE sv.saves,
                        !.lastSaved = Remember(@, sv.outcome,
                                               CompletedDoc(updatedSession)),
                        !.completions[i].pc = "saveSession"]
  IN IF sv.outcome = "pending"
     THEN pg1
     ELSE completeInterviewAfterSave(pg1, i, sv.outcome)

\* getSession (lines 179-202); null reads NoDoc
getSession(sessionId, remoteOk) ==
  IF ~hasStore THEN localSessions[sessionId]
  ELSE IF remoteOk THEN remoteDocs[sessionId]
  ELSE localSessions[sessionId]

MountCompleted ==
  /\ session = NullSession
  /\ \E id \in SessionIds :
       session' = [NullSession EXCEPT !.sessionId = id, !.isCompleted = TRUE]
  /\ pageEvent' = NoEvent
  /\ UNCHANGED <<activeTab, isProcessing, completions, storeVars, gatewayVars,
                 sessionVars, formVars>>

\* the mount effect of Interview
Mount ==
  /\ session = NullSession
  /\ \E id \in SessionIds :
       session' = [NullSession EXCEPT !.sessionId = id]
  /\ pageEvent' = NoEvent
  /\ UNCHANGED <<activeTab, isProcessing, completions, storeVars, gatewayVars,
                 sessionVars, formVars>>

\* InterviewSetup.handleStart -> Interview.startInterview -> saveSession
StartInterview(role, skillLevel, jobDescription, localOk) ==
  /\ activeTab = "setup"
  /\ LET r == startInterview(role, skillLevel, jobDescription)
         sv == IF r.saved
               THEN saveSession(localSessions, saves, r.save, "startInterview",
                                localOk)
               ELSE NotSaved(localSessions, saves)
     IN /\ Len(sv.saves) <= MaxPendingSaves
        /\ (localOk \/ sv.outcome = "rejected")
        /\ session' = r.session
        /\ activeTab' = r.activeTab
        /\ localSessions' = sv.localSessions
        /\ saves' = sv.saves
        /\ lastSaved' = Remember(lastSaved, sv.outcome, r.save)
        /\ completions' = IF r.saved THEN Raced(completions) ELSE completions
        /\ pageEvent' = [kind |-> "startInterview", origin |-> "startInterview",
                         outcome |-> sv.outcome, save |-> r.save,
                         tabBefore |-> activeTab, sessionBefore |-> session,
                         completed |-> 0, raced |-> FALSE,
                         remote |-> "none", toast |-> "none"]
  /\ UNCHANGED <<hasStore, isLocalhost, remoteDocs, remoteObjects, store,
                 stored, isProcessing, gatewayVars, sessionVars, formVars>>

\* Tabs onValueChange={setActiveTab}
SetActiveTab(tab) ==
  /\ tab # activeTab
  /\ TabEnabled(tab)
  /\ activeTab' = tab
  /\ pageEvent' = NoEvent
  /\ UNCHANGED <<session, isProcessing, completions, storeVars, gatewayVars,
                 sessionVars, formVars>>

\* The view holds setSession (line 206) and adds the fragments its recorder
\* captures to session.recording while the session tab is shown.
RecordFragment ==
  /\ activeTab = "session"
  /\ session.recording < MaxFragments
  /\ session' = [session EXCEPT !.recording = @ + 1]
  /\ pageEvent' = NoEvent
  /\ UNCHANGED <<activeTab, isProcessing, completions, storeVars, gatewayVars,
                 sessionVars, formVars>>

\* The view holds onComplete (line 209) and calls it with the feedback:
\* completeInterview up to its first await that does not settle at once.
CompleteInterview(feedback, localOk) ==
  /\ activeTab = "session"
  /\ session # NullSession
  /\ Len(completions) < MaxCompletions
  /\ LET i == Len(completions) + 1
         c == [pc |-> "storeRecording", session |-> session,
               feedback |-> feedback,
               raced |-> \E k \in 1..Len(completions) :
                            completions[k].pc # "done"]
         pg0 == [Pg EXCEPT !.isProcessing = TRUE,
                           !.completions = Append(Raced(@), c)]
         pg1 == IF session.recording > 0
                THEN LET s1 == storeRecording(S, session.sessionId,
                                              session.recording)
                     IN IF s1.store.settled
                        THEN completeInterviewSave(pg0, i, RecordingUrl(s1.stored),
                                                   localOk)
                        ELSE pg0
                ELSE completeInterviewSave(pg0, i, NoRef, localOk)
     IN /\ IF session.recording > 0
           THEN /\ store.pc = "idle"
                /\ SetS(storeRecording(S, session.sessionId, session.recording))
           ELSE UNCHANGED <<store, stored, remoteDocs, remoteObjects>>
        /\ Len(pg1.saves) <= MaxPendingSaves
        /\ SetPg(pg1)
        /\ pageEvent' = [kind |-> "completeInterview",
                         origin |-> "completeInterview",
                         outcome |-> pg1.completions[i].pc,
                         save |-> CompletedDoc(pg1.session),
                         tabBefore |-> activeTab, sessionBefore |-> session,
                         completed |-> Ended(completions, pg1.completions),
                         raced |-> c.raced, remote |-> "none",
                         toast |-> "none"]
  /\ UNCHANGED <<hasStore, isLocalhost, gatewayVars, sessionVars, formVars>>

\* what the caller's .catch shows the user when saveSession has settled: the
\* "Save Warning" toast of completeInterview (lines 114-121), nothing but
\* console.error in startInterview (lines 65-67); saveSession itself shows
\* nothing
SaveToast(origin, outcome) ==
  IF origin = "completeInterview" /\ outcome = "rejected"
  THEN "Save Warning" ELSE "none"

\* the setDoc a saveSession call awaits settles; on an error the catch block
\* writes to localStorage, and saveSession rejects when that write throws too;
\* the completeInterview call that awaits it goes on
SaveSettle(i, remoteOk, localOk) ==
  /\ (remoteOk => localOk)
  /\ LET sv == saves[i]
         outcome == IF remoteOk \/ localOk THEN "resolved" ELSE "rejected"
         pg1 == [Pg EXCEPT !.saves = RemoveAt(saves, i),
                           !.localSessions = IF remoteOk THEN @
                                             ELSE localWrite(@, sv.data, localOk),
                           !.lastSaved = Remember(@, outcome, sv.data)]
     IN /\ remoteDocs' = IF remoteOk
                         THEN [remoteDocs EXCEPT ![sv.data.sessionId] = sv.data]
                         ELSE remoteDocs
        /\ SetPg(IF sv.completion = 0 THEN pg1
                 ELSE completeInterviewAfterSave(pg1, sv.completion, outcome))
        /\ pageEvent' = [kind |-> "saveSettled", origin |-> sv.origin,
                         outcome |-> outcome,
                         save |-> sv.data, tabBefore |-> activeTab,
                         sessionBefore |-> session,
                         completed |-> sv.completion,
                         raced |-> IF sv.completion = 0 THEN FALSE
                                   ELSE completions[sv.completion].raced,
                         remote |-> IF remoteOk THEN "ok" ELSE "failed",
                         toast |-> SaveToast(sv.origin, outcome)]
  /\ UNCHANGED <<hasStore, isLocalhost, remoteObjects, store, stored,
                 gatewayVars, sessionVars, formVars>>

\* what the page does in a step of storeRecording: the completeInterview call
\* that awaits it goes on when the promise settles in this step
PageOnStored(localOk) ==
  IF /\ ~store.settled
     /\ stored' # NotStored
     /\ \E k \in 1..Len(completions) : completions[k].pc = "storeRecording"
  THEN LET i == CHOOSE k \in 1..Len(completions) :
                  completions[k].pc = "storeRecording"
           pg1 == completeInterviewSave(Pg, i, RecordingUrl(stored'), localOk)
       IN /\ Len(pg1.saves) <= MaxPendingSaves
          /\ SetPg(pg1)
          /\ pageEvent' = [kind |-> "stored", origin |-> "completeInterview",
                           outcome |-> pg1.completions[i].pc,
                           save |-> CompletedDoc(pg1.session),
                           tabBefore |-> activeTab, sessionBefore |-> session,
                           completed |-> Ended(completions, pg1.completions),
                           raced |-> completions[i].raced, remote |-> "none",
                           toast |-> "none"]
  ELSE /\ localOk
       /\ pageEvent' = NoEvent
       /\ UNCHANGED <<localSessions, saves, lastSaved, activeTab, session,
                      isProcessing, completions>>

\* a caller other than the page uses storeRecording
StoreRecording(sessionId, blobs) ==
  /\ store.pc = "idle"
  /\ SetS(storeRecording(S, sessionId, blobs))
  /\ pageEvent' = NoEvent
  /\ UNCHANGED <<hasStore, isLocalhost, localSessions, saves, lastSaved,
                 activeTab, session, isProcessing, completions, gatewayVars,
                 sessionVars, formVars>>

StoreRecordingResume(ok, localOk) ==
  /\ store.pc \in {"uploadBytes", "getDownloadURL", "getDoc", "setDoc"}
  /\ SetS(storeRecordingResume(S, ok))
  /\ PageOnStored(localOk)
  /\ UNCHANGED <<hasStore, isLocalhost, gatewayVars, sessionVars, formVars>>

StoreRecordingTimeout(localOk) ==
  /\ store.flow = "localhost"
  /\ ~store.settled
  /\ SetS(storeRecordingTimeout(S))
  /\ PageOnStored(localOk)
  /\ UNCHANGED <<hasStore, isLocalhost, gatewayVars, sessionVars, formVars>>

\* a caller uses getSession; the getDoc it awaits succeeds or fails
GetSession(sessionId, remoteOk) ==
  /\ (hasStore \/ remoteOk)
  /\ pageEvent' = [NoEvent EXCEPT !.kind = "getSession",
                                  !.origin = sessionId,
                                  !.outcome = IF hasStore /\ remoteOk
                                              THEN "remote" ELSE "local",
                                  !.save = getSession(sessionId, remoteOk)]
  /\ UNCHANGED <<storeVars, activeTab, session, isProcessing, completions,
                 gatewayVars, sessionVars, formVars>>

\* Object.values(localSessions) / querySnapshot.forEach: the records that
\* exist, as a sequence; timestamps are not modelled, so neither is the order
RECURSIVE values(_, _)
values(docs, ids) ==
  IF ids = {} THEN <<>>
  ELSE LET id == CHOOSE i \in ids : TRUE
       IN (IF docs[id] # NoDoc THEN <<docs[id]>> ELSE <<>>)
            \o values(docs, ids \ {id})

\* getAllSessions (lines 205-248)
getAllSessions(remoteOk) ==
  IF ~hasStore THEN values(localSessions, SessionIds)
  ELSE IF remoteOk THEN values(remoteDocs, SessionIds)
  ELSE values(localSessions, SessionIds)

\* setDoc(doc.ref, { deleted: true }, { merge: true }) (line 264)
MarkDeleted(d) == [deleted |-> TRUE] @@ d

\* localStorage.removeItem('interviewSessions')
removeItem == [id \in SessionIds |-> NoDoc]

\* clearSessions (lines 251-275): the remote operations (getDocs, the setDoc
\* calls) succeed, or one of them fails and the catch block runs
clearSessions(remoteOk) ==
  IF ~hasStore \/ ~remoteOk
  THEN [remoteDocs |-> remoteDocs, localSessions |-> removeItem]
  ELSE [remoteDocs |-> [id \in SessionIds |->
                          IF remoteDocs[id] # NoDoc
                          THEN MarkDeleted(remoteDocs[id]) ELSE NoDoc],
        localSessions |-> localSessions]

\* a caller uses clearSessions
ClearSessions(remoteOk) ==
  /\ (hasStore \/ remoteOk)
  /\ remoteDocs' = clearSessions(remoteOk).remoteDocs
  /\ localSessions' = clearSessions(remoteOk).localSessions
  /\ pageEvent' = [NoEvent EXCEPT !.kind = "clearSessions",
                                  !.outcome = IF hasStore /\ remoteOk
                                              THEN "remote" ELSE "local",
                                  !.completed =
                                     Len(values(remoteDocs, SessionIds))
                                       + Len(values(localSessions, SessionIds))]
  /\ UNCHANGED <<hasStore, isLocalhost, remoteObjects, store, stored, saves,
                 lastSaved, activeTab, session, isProcessing, completions,
                 gatewayVars, sessionVars, formVars>>

\* a caller uses getAllSessions; the getDocs it awaits succeeds or fails
GetAllSessions(remoteOk) ==
  /\ (hasStore \/ remoteOk)
  /\ pageEvent' = [NoEvent EXCEPT !.kind = "getAllSessions",
                                  !.outcome = IF hasStore /\ remoteOk
                                              THEN "remote" ELSE "local",
                                  !.completed = Len(getAllSessions(remoteOk))]
  /\ UNCHANGED <<storeVars, activeTab, session, isProcessing, completions,
                 gatewayVars, sessionVars, formVars>>

(***************************************************************************)
(* The InterviewSetup form (InterviewSetup.tsx).  The page renders it in   *)
(* the content of the setup tab, so it is mounted while that tab is shown; *)
(* a handleStart call that awaits the probe goes on with the values of the *)
(* render in which the button was clicked.                                 *)
(***************************************************************************)
NoProbe == [status |-> -1, kind |-> "none", score |-> 0]

NoClosure == [key |-> NoKey, role |-> "", skillLevel |-> "", jobDescription |-> ""]

NoSetup ==
  [mounted |-> FALSE, needsApiKey |-> FALSE, geminiApiKey |-> NoKey,
   isValidating |-> FALSE, probing |-> FALSE, closure |-> NoClosure,
   lastProbe |-> NoProbe, notice |-> ""]

\* a question text: template k of the pool with the role filled in; 0 is
\* the fixed sentence of line 537, 11 a text that is in no pool
Question(k, role) == [template |-> k, role |-> role]

NoQuestion == Question(-1, "")

NoApplied ==
  [fn |-> "none", pc |-> "none", jobDescription |-> <<>>,
   previousQuestions |-> {}, random |-> 0, question |-> NoQuestion,
   resp |-> NoProbe, feedback |-> NoResult]

FormIdle ==
  /\ setup = NoSetup
  /\ applied = NoApplied

\* useState initial values (lines 19-25) and the mount effect (28-30); a
\* handleStart call of an earlier instance that still awaits its probe stays
SetupAtMount(form, keyed) ==
  [NoSetup EXCEPT !.mounted = TRUE, !.needsApiKey = ~keyed,
                  !.probing = form.probing, !.closure = form.closure,
                  !.lastProbe = form.lastProbe]

\* the form after a step that leaves the page on tab: the content of the
\* setup tab is unmounted with the tab, and mounted anew when it is shown
Shown(form, before, tab, keyed) ==
  IF tab = "setup"
  THEN IF before = "setup" THEN form ELSE SetupAtMount(form, keyed)
  ELSE [NoSetup EXCEPT !.probing = form.probing, !.closure = form.closure,
                       !.lastProbe = form.lastProbe, !.notice = form.notice]

\* a state setter of the form: no effect once the form is unmounted
SetForm(form, form2) == IF form.mounted THEN form2 ELSE form

\* setGeminiApiKey (webrtc-utils.ts 264-272): its result and the credential
\* it leaves
setGeminiApiKey(key) ==
  IF Len(key) > 0 /\ Len(Trim(key)) > 0
  THEN [success |-> TRUE, apiKey |-> Trim(key), sessionKey |-> Trim(key)]
  ELSE [success |-> FALSE, apiKey |-> apiKey, sessionKey |-> sessionKey]

\* onStart(role, skillLevel, jobDescription): Interview.startInterview and
\* its saveSession call
OnStart(role, skillLevel, jobDescription, localOk) ==
  LET r == startInterview(role, skillLevel, jobDescription)
      sv == IF r.saved
            THEN saveSession(localSessions, saves, r.save, "startInterview", localOk)
            ELSE NotSaved(localSessions, saves)
  IN /\ Len(sv.saves) <= MaxPendingSaves
     /\ (localOk \/ sv.outcome = "rejected")
     /\ session' = r.session
     /\ activeTab' = r.activeTab
     /\ localSessions' = sv.localSessions
     /\ saves' = sv.saves
     /\ lastSaved' = Remember(lastSaved, sv.outcome, r.save)
     /\ completions' = IF r.saved THEN Raced(completions) ELSE completions
     /\ pageEvent' = [kind |-> "startInterview", origin |-> "startInterview",
                      outcome |-> sv.outcome, save |-> r.save,
                      tabBefore |-> activeTab, sessionBefore |-> session,
                      completed |-> 0, raced |-> FALSE,
                      remote |-> "none", toast |-> "none"]

\* nothing of the page or of the store changes
PageQuiet ==
  /\ pageEvent' = NoEvent
  /\ UNCHANGED <<activeTab, session, localSessions, saves, lastSaved, completions>>

\* handleStart from the role check to its end (lines 64-76)
HandleStartRole(form, c, localOk) ==
  IF c.role = ""
  THEN /\ setup' = [form EXCEPT !.notice = "Role Required"]
       /\ PageQuiet
  ELSE /\ OnStart(c.role, c.skillLevel, c.jobDescription, localOk)
       /\ setup' = Shown(form, activeTab, activeTab', hasGeminiApiKey')

\* onChange of the key input, shown while needsApiKey holds (149-168)
SetGeminiApiKeyState(key) ==
  /\ setup.mounted
  /\ setup.needsApiKey
  /\ key # setup.geminiApiKey
  /\ setup' = [setup EXCEPT !.geminiApiKey = key]
  /\ PageQuiet
  /\ UNCHANGED <<hasStore, isLocalhost, remoteDocs, remoteObjects, store, stored,
                 isProcessing, gatewayVars, sessionVars, applied>>

\* a click of the Start button (enabled unless isValidating): handleStart
\* (lines 32-77) up to the await of the probe, or to its end
HandleStart(role, skillLevel, jobDescription, localOk) ==
  /\ setup.mounted
  /\ ~setup.isValidating
  /\ LET c == [key |-> Trim(setup.geminiApiKey), role |-> role,
               skillLevel |-> skillLevel, jobDescription |-> jobDescription]
     IN  IF setup.needsApiKey /\ Trim(setup.geminiApiKey) # NoKey
         THEN /\ ~setup.probing
              /\ setup' = [setup EXCEPT !.isValidating = TRUE, !.probing = TRUE,
                                        !.closure = c, !.notice = ""]
              /\ PageQuiet
         ELSE IF setup.needsApiKey
         THEN /\ localOk
              /\ setup' = [setup EXCEPT !.notice = "API Key Required"]
              /\ PageQuiet
         ELSE HandleStartRole([setup EXCEPT !.notice = ""], c, localOk)
  /\ UNCHANGED <<hasStore, isLocalhost, remoteDocs, remoteObjects, store, stored,
                 isProcessing, gatewayVars, sessionVars, applied>>

\* the probe of a handleStart call settles with resp: handleStart from the
\* return of validateApiKey (line 35) to its end
ProbeSettles(resp, localOk) ==
  /\ setup.probing
  /\ LET c == setup.closure
         k == setGeminiApiKey(c.key)
         ended == [setup EXCEPT !.probing = FALSE, !.closure = NoClosure,
                                !.lastProbe = resp]
         form == SetForm(ended, [ended EXCEPT !.isValidating = FALSE])
     IN  IF ~validateApiKey(resp)
         THEN /\ localOk
              /\ setup' = [form EXCEPT !.notice = "not validated"]
              /\ PageQuiet
              /\ UNCHANGED <<apiKey, sessionKey>>
         ELSE IF ~k.success
         THEN /\ localOk
              /\ setup' = [form EXCEPT !.notice = "Error Saving API Key"]
              /\ PageQuiet
              /\ UNCHANGED <<apiKey, sessionKey>>
         ELSE /\ apiKey' = k.apiKey
              /\ sessionKey' = k.sessionKey
              /\ HandleStartRole(SetForm(form, [form EXCEPT !.needsApiKey = FALSE,
                                                            !.notice = "API Key Saved"]),
                                 c, localOk)
  /\ UNCHANGED <<hasStore, isLocalhost, remoteDocs, remoteObjects, store, stored,
                 isProcessing, envKey, usage, requestQueue, inProgress, queueLock,
                 sinceLast, timers, running, nextId, lastCall, done,
                 lastDispatched, sessionVars, applied>>

\* Tabs onValueChange={setActiveTab}, with the form of the setup tab
ShowTab(tab) ==
  /\ tab # activeTab
  /\ TabEnabled(tab)
  /\ activeTab' = tab
  /\ setup' = Shown(setup, activeTab, tab, hasGeminiApiKey)
  /\ pageEvent' = NoEvent
  /\ UNCHANGED <<session, isProcessing, completions, storeVars, gatewayVars,
                 sessionVars, applied>>

(***************************************************************************)
(* The InterviewSession view (webrtc-utils.ts lines 691-1073).  One        *)
(* instance is followed from its mount to its unmount and beyond: timers   *)
(* and awaited calls of an unmounted instance still run, while its state   *)
(* setters have no effect any more.                                        *)
(***************************************************************************)
\* what the recognizer can hand to the result callback
Utterances == {"I'm doing well thanks", "done"}

NoText == ""

GreetingWithRole == "Hi! I'm your AI interviewer for the role position. How are you today?"

GreetingPlain == "Hi! I'm your AI interviewer. How are you today?"

RephraseResponse == "I didn't quite catch that. Could you please rephrase or share more details?"

ThanksResponse == "Thank you for the interview! I'll provide feedback shortly."

MoreTimeResponse == "It seems you need more time. Here's another question: Can you share an example of a project you're proud of?"

Turn(role, content) == [role |-> role, content |-> content]

\* The values the closures of the first render hold.  The mount effect runs
\* once (dependency list []), so the callbacks it registers - the synthesis
\* onend handler with its startResponseTimeout, the recognition callback
\* debouncedHandleUserSpeech with its handleUserSpeech and speakText, and the
\* cleanup - read the useState initial values for the life of the instance.
Render1 ==
  [waitingForResponse |-> FALSE, isListening |-> FALSE, conversation |-> <<>>,
   voiceEnabled |-> TRUE, mediaStream |-> FALSE]

NoView ==
  [phase |-> "none", synthSupported |-> FALSE, recSupported |-> FALSE,
   hasUtterance |-> FALSE, media |-> "none", tracksLive |-> FALSE,
   registered |-> FALSE, rec |-> "idle", waitingForResponse |-> FALSE,
   isListening |-> FALSE, isProcessing |-> FALSE, conversation |-> <<>>,
   lastSpeech |-> NoText, responseTimeout |-> "none", debounce |-> NoText,
   speakTimers |-> <<>>, voiceEnabled |-> TRUE]

SynthIdle == [speaking |-> FALSE, text |-> NoText]

NoSessionEvent ==
  [kind |-> "none", text |-> NoText, before |-> NoView, called |-> FALSE,
   spoke |-> FALSE, note |-> ""]

SessionEvent(kind, text, called, spoke) ==
  [kind |-> kind, text |-> text, before |-> view, called |-> called,
   spoke |-> spoke, note |-> ""]

\* a state setter of the view: React drops updates of an unmounted component
SetState(v, v2) ==
  IF v.phase = "mounted"
  THEN [v EXCEPT !.waitingForResponse = v2.waitingForResponse,
                 !.isListening = v2.isListening,
                 !.isProcessing = v2.isProcessing,
                 !.conversation = v2.conversation]
  ELSE v

\* speakText (lines 950-956): cancel what is spoken, speak the text
speakText(v, sy, text) ==
  IF Render1.voiceEnabled /\ v.hasUtterance
  THEN [speaking |-> TRUE, text |-> text]
  ELSE sy

\* startResponseTimeout (lines 818-827): replace the pending timer
startResponseTimeout(v) == [v EXCEPT !.responseTimeout = "pending"]

\* the greeting of startInterview (lines 809-811)
Greeting == IF session.role \in {"undefined", ""} THEN GreetingPlain ELSE GreetingWithRole

\* the first render and the mount effect (lines 737-767): setupMedia up to its
\* await, initializeSpeechSynthesis, startInterview
MountSession ==
  /\ view.phase = "none"
  /\ activeTab = "session"
  /\ LET v == [view EXCEPT !.phase = "mounted",
                           !.media = "pending",
                           !.hasUtterance = view.synthSupported,
                           !.conversation = <<Turn("assistant", Greeting)>>]
     IN /\ view' = v
        /\ synth' = speakText(v, synth, Greeting)
        /\ sessionEvent' = SessionEvent("mount", Greeting, FALSE,
                                        speakText(v, synth, Greeting).speaking)
  /\ UNCHANGED inFlight

\* requestUserMedia settles (lines 740-762); the recorder is initialized and
\* the recognition callback registered even when the view is gone by then
MediaSettles(granted) ==
  /\ view.media = "pending"
  /\ view' = IF granted
             THEN [view EXCEPT !.media = "granted", !.tracksLive = TRUE,
                               !.registered = view.recSupported]
             ELSE [view EXCEPT !.media = "denied"]
  /\ sessionEvent' = SessionEvent("media", NoText, FALSE, FALSE)
  /\ UNCHANGED <<synth, inFlight>>

\* the utterance has been spoken: onend (lines 786-790)
SpeechEnds ==
  /\ synth.speaking
  /\ synth' = SynthIdle
  /\ view' = startResponseTimeout(
               SetState(view, [view EXCEPT !.isProcessing = FALSE,
                                           !.waitingForResponse = TRUE]))
  /\ sessionEvent' = SessionEvent("speechEnd", synth.text, FALSE, FALSE)
  /\ UNCHANGED inFlight

\* SpeechRecognitionUtil.isActive (lines 221-223)
isActive(v) == v.rec = "active"

\* disabled= of the "Hold to Speak" button (line 1063)
ListenDisabled(v) == v.isListening \/ v.isProcessing \/ ~v.waitingForResponse

\* the button of lines 1060-1066 and startListening (lines 958-979)
StartListening ==
  /\ view.phase = "mounted"
  /\ ~ListenDisabled(view)
  /\ view' = IF view.isProcessing \/ ~view.waitingForResponse \/ isActive(view)
             THEN view
             ELSE [view EXCEPT !.isListening = TRUE,
                               !.rec = IF view.recSupported THEN "active" ELSE @]
  /\ sessionEvent' = SessionEvent("listen", NoText, FALSE, FALSE)
  /\ UNCHANGED <<synth, inFlight>>

\* recognition.onresult (lines 142-158): the callback, then stop(); the
\* callback is the debounced function, which restarts its 500 ms wait.  A
\* recognizer that was stopped while listening may still deliver the result
\* of the audio it has captured.
RecognitionResult(text) ==
  /\ view.rec \in {"active", "stopping"}
  /\ view' = [view EXCEPT !.rec = "idle",
                          !.debounce = IF view.registered THEN text ELSE @]
  /\ sessionEvent' = SessionEvent("result", text, FALSE, FALSE)
  /\ UNCHANGED <<synth, inFlight>>

\* recognition.onerror / onend without a result (lines 160-167)
RecognitionEnds ==
  /\ view.rec \in {"active", "stopping"}
  /\ view' = [view EXCEPT !.rec = "idle"]
  /\ sessionEvent' = SessionEvent("recognitionEnd", NoText, FALSE, FALSE)
  /\ UNCHANGED <<synth, inFlight>>

\* a step of the view that does not touch the gateway
GatewayQuiet ==
  /\ lastCall' = NoCall
  /\ done' = NotDone
  /\ UNCHANGED <<envKey, sessionKey, apiKey, usage, requestQueue, inProgress,
                 queueLock, sinceLast, timers, running, nextId, lastDispatched>>

\* text.toLowerCase().includes("done") (line 860), on the utterances above
IncludesDone(text) == text = "done"

\* conversation.some(msg => msg.content === content) (lines 859, 888)
Said(conversation, content) ==
  \E i \in 1..Len(conversation) : conversation[i].content = content

ClearResponseTimeout(v) ==
  [v EXCEPT !.responseTimeout = IF @ = "pending" THEN "cleared" ELSE @]

handleUserSpeechKeepsWaiting(v, text) ==
  ClearResponseTimeout(
    SetState(v, [v EXCEPT !.isListening = FALSE,
                          !.conversation = Append(Render1.conversation,
                                                  Turn("user", text))]))

\* handleUserSpeech up to its await (lines 836-846); conversation is the one
\* of the closure
handleUserSpeech(v, text) ==
  ClearResponseTimeout(
    SetState(v, [v EXCEPT !.isListening = FALSE,
                          !.conversation = Append(Render1.conversation,
                                                  Turn("user", text)),
                          !.waitingForResponse = FALSE,
                          !.isProcessing = TRUE]))

\* handleNoResponse up to its await (lines 876-877)
handleNoResponse(v) ==
  SetState(v, [v EXCEPT !.waitingForResponse = FALSE, !.isProcessing = TRUE])

\* the try branch after the await (lines 850-856, 880-885) and finally
\* (lines 871, 898): setConversation(prev => [...prev, turn]), the 100 ms timer
Responded(v, content, atStop) ==
  [SetState(v, [v EXCEPT !.conversation = Append(@, Turn("assistant", content)),
                         !.isProcessing = FALSE])
     EXCEPT !.speakTimers = Append(@, [text |-> content, atStop |-> atStop])]

\* the fallback a handler speaks when generateAIResponse threw
FallbackResponse(origin, text) ==
  IF origin = "silence" THEN MoreTimeResponse
  ELSE IF IncludesDone(text) THEN ThanksResponse ELSE RephraseResponse

\* the catch branch (lines 857-869, 886-896) and finally
Failed(v, origin, text, atStop) ==
  IF ~Said(Render1.conversation, FallbackResponse(origin, text))
  THEN Responded(v, FallbackResponse(origin, text), atStop)
  ELSE SetState(v, [v EXCEPT !.isProcessing = FALSE])

\* the text generateInterviewQuestion resolved with
ContentOf(result) == result.src

\* generateAIResponse (lines 902-923): the gateway is called with the view at
\* v; a rejection reaches the catch branch at once
CallGateway(v, origin, text) ==
  /\ GenerateInterviewQuestion
  /\ IF done'.outcome = "rejected"
     THEN /\ view' = Failed(v, origin, text, FALSE)
          /\ inFlight' = inFlight
     ELSE /\ view' = v
          /\ inFlight' = inFlight \cup {[id |-> nextId, origin |-> origin,
                                         text |-> text, atStop |-> FALSE]}

IsDuplicateNever(v, text) == FALSE

\* text === lastSpeechRef.current (line 830)
IsDuplicate(v, text) == text = v.lastSpeech

\* the 500 ms of the debounce have passed: lines 830-832
DebounceFires ==
  /\ view.debounce # NoText
  /\ LET text == view.debounce
         v0 == [view EXCEPT !.debounce = NoText]
     IN IF IsDuplicate(v0, text)
        THEN /\ view' = v0
             /\ inFlight' = inFlight
             /\ GatewayQuiet
             /\ sessionEvent' = SessionEvent("utterance", text, FALSE, FALSE)
        ELSE /\ CallGateway(handleUserSpeech([v0 EXCEPT !.lastSpeech = text], text),
                            "speech", text)
             /\ sessionEvent' = SessionEvent("utterance", text, TRUE, FALSE)
  /\ UNCHANGED synth

\* the 15000 ms timer of startResponseTimeout fires (lines 822-826); the
\* condition reads the closure
ResponseTimeout ==
  /\ view.responseTimeout = "pending"
  /\ LET v0 == [view EXCEPT !.responseTimeout = "fired"]
     IN IF Render1.waitingForResponse /\ ~Render1.isListening
        THEN /\ CallGateway(handleNoResponse(v0), "silence", NoText)
             /\ sessionEvent' = SessionEvent("silence", NoText, TRUE, FALSE)
        ELSE /\ view' = v0
             /\ inFlight' = inFlight
             /\ GatewayQuiet
             /\ sessionEvent' = SessionEvent("silence", NoText, FALSE, FALSE)
  /\ UNCHANGED synth

\* the continuation of the handler that awaits the call which settled as d;
\* the generated text may be blank, which generateAIResponse turns into an
\* error (lines 919-921)
Settled(c, d, blank) ==
  /\ view' = IF d.outcome = "resolved" /\ ~blank
             THEN Responded(view, ContentOf(d.result), c.atStop)
             ELSE Failed(view, c.origin, c.text, c.atStop)
  /\ inFlight' = inFlight \ {c}
  /\ sessionEvent' = [SessionEvent("settled", c.text, FALSE, FALSE)
                        EXCEPT !.note = IF c.atStop THEN "inFlightAtStop" ELSE ""]

\* what the view does in a step of the gateway
SessionOnSettle ==
  /\ IF \E c \in inFlight : c.id = done'.id
     THEN \E c \in inFlight :
            /\ c.id = done'.id
            /\ \E blank \in IF done'.result = GeneratedQuestion
                            THEN BOOLEAN ELSE {FALSE} :
                 Settled(c, done', blank)
     ELSE /\ UNCHANGED <<view, inFlight>>
          /\ sessionEvent' = NoSessionEvent
  /\ UNCHANGED synth

\* a 100 ms timer of a handler fires: speakText
SpeakTimer(i) ==
  /\ LET v0 == [view EXCEPT !.speakTimers = RemoveAt(@, i)]
         t == view.speakTimers[i]
         sy == speakText(v0, synth, t.text)
     IN /\ view' = v0
        /\ synth' = sy
        /\ sessionEvent' = [SessionEvent("speak", t.text, FALSE,
                                         sy.speaking /\ v0.hasUtterance)
                              EXCEPT !.note = IF t.atStop THEN "inFlightAtStop"
                                                         ELSE ""]
  /\ UNCHANGED inFlight

\* toggleVoice (lines 943-948), the onClick of the voice button of the render
\* on screen: voiceEnabled is the current one.  cancel() cuts off the
\* utterance being spoken; whether the browser then dispatches its end event
\* (rather than an error event, which has no handler) depends on the browser.
ToggleVoice(endFires) ==
  /\ view.phase = "mounted"
  /\ (endFires => (view.voiceEnabled /\ synth.speaking /\ view.hasUtterance))
  /\ LET v1 == [view EXCEPT !.voiceEnabled = ~@]
     IN view' = IF endFires
                THEN startResponseTimeout(
                       SetState(v1, [v1 EXCEPT !.isProcessing = FALSE,
                                               !.waitingForResponse = TRUE]))
                ELSE v1
  /\ synth' = IF view.voiceEnabled THEN SynthIdle ELSE synth
  /\ sessionEvent' = [SessionEvent("toggleVoice", synth.text, FALSE, FALSE)
                        EXCEPT !.note = IF endFires THEN "endFired" ELSE ""]
  /\ UNCHANGED inFlight

\* mediaStream.getTracks().forEach(track => track.stop()) of the cleanup
\* (lines 770-772); mediaStream is the one of the closure
StopTracks(v) == IF Render1.mediaStream THEN [v EXCEPT !.tracksLive = FALSE] ELSE v

\* SpeechRecognitionUtil.stop (lines 193-198)
StopRecognition(v) ==
  IF v.recSupported
  THEN [v EXCEPT !.rec = IF @ = "idle" THEN "idle" ELSE "stopping"]
  ELSE v

\* The cleanup of the mount effect (lines 769-780), run when the view is
\* unmounted by leaving the "session" tab.  Whether cancel() dispatches the
\* end event of the utterance it cuts off depends on the browser; when it
\* does, onend sets a new response timer after the cleanup.
UnmountSession(endFires) ==
  /\ view.phase = "mounted"
  /\ (endFires => (synth.speaking /\ view.hasUtterance))
  /\ LET v1 == StopRecognition(StopTracks([view EXCEPT !.phase = "unmounted"]))
         v2 == ClearResponseTimeout(v1)
     IN view' = IF endFires THEN startResponseTimeout(v2) ELSE v2
  /\ synth' = IF view.hasUtterance THEN SynthIdle ELSE synth
  /\ activeTab' = "setup"
  /\ inFlight' = {[c EXCEPT !.atStop = TRUE] : c \in inFlight}
  /\ sessionEvent' = [SessionEvent("unmount", NoText, FALSE, FALSE)
                        EXCEPT !.note = IF endFires THEN "endFired" ELSE ""]
  /\ UNCHANGED <<session, isProcessing, completions, pageEvent>>

SessionIdle ==
  /\ view = NoView
  /\ synth = SynthIdle
  /\ inFlight = {}
  /\ sessionEvent = NoSessionEvent

\* a step of the gateway or of a timer in which the view does nothing
SessionQuiet ==
  /\ sessionEvent' = NoSessionEvent
  /\ UNCHANGED <<view, synth, inFlight>>

\* the page has been set up and started, the session tab is shown and the
\* view is about to be mounted; the browser may lack speech synthesis or
\* speech recognition
InitSession ==
  /\ envKey = <<"k">>
  /\ sessionKey = NoKey
  /\ apiKey = initApiKey(envKey)
  /\ usage \in InitUsages
  /\ GatewayIdle
  /\ hasStore = FALSE
  /\ isLocalhost = FALSE
  /\ remoteDocs = [id \in SessionIds |-> NoDoc]
  /\ remoteObjects = {}
  /\ \E id \in SessionIds, role \in Roles, skillLevel \in SkillLevels :
       /\ session = [NullSession EXCEPT !.sessionId = id, !.role = role,
                                        !.skillLevel = skillLevel,
                                        !.jobDescription = ""]
       /\ localSessions =
            [i \in SessionIds |->
               IF i = id
               THEN [NoDoc EXCEPT !.sessionId = id, !.role = role,
                                  !.skillLevel = skillLevel,
                                  !.jobDescription = ""]
               ELSE NoDoc]
  /\ store = StoreIdle
  /\ stored = NotStored
  /\ saves = <<>>
  /\ lastSaved = localSessions
  /\ activeTab = "session"
  /\ isProcessing = FALSE
  /\ completions = <<>>
  /\ pageEvent = NoEvent
  /\ \E synthSupported \in BOOLEAN, recSupported \in BOOLEAN :
       view = [NoView EXCEPT !.synthSupported = synthSupported,
                             !.recSupported = recSupported]
  /\ synth = SynthIdle
  /\ inFlight = {}
  /\ sessionEvent = NoSessionEvent
  /\ FormIdle

NextSession ==
  \/ MountSession /\ GatewayQuiet /\ UNCHANGED <<storeVars, pageVars, formVars>>
  \/ (\E granted \in BOOLEAN : MediaSettles(granted))
       /\ GatewayQuiet /\ UNCHANGED <<storeVars, pageVars, formVars>>
  \/ SpeechEnds /\ GatewayQuiet /\ UNCHANGED <<storeVars, pageVars, formVars>>
  \/ StartListening /\ GatewayQuiet /\ UNCHANGED <<storeVars, pageVars, formVars>>
  \/ (\E text \in Utterances : RecognitionResult(text))
       /\ GatewayQuiet /\ UNCHANGED <<storeVars, pageVars, formVars>>
  \/ RecognitionEnds /\ GatewayQuiet /\ UNCHANGED <<storeVars, pageVars, formVars>>
  \/ DebounceFires /\ UNCHANGED <<storeVars, pageVars, formVars>>
  \/ ResponseTimeout /\ UNCHANGED <<storeVars, pageVars, formVars>>
  \/ (\E i \in 1..Len(view.speakTimers) : SpeakTimer(i))
       /\ GatewayQuiet /\ UNCHANGED <<storeVars, pageVars, formVars>>
  \/ (\E endFires \in BOOLEAN : UnmountSession(endFires))
       /\ GatewayQuiet /\ UNCHANGED <<storeVars, formVars>>
  \/ (\E r \in running, resp \in Responses : Respond(r, resp))
       /\ SessionOnSettle /\ UNCHANGED <<storeVars, pageVars, formVars>>
  \/ (\E r \in running : Retry(r))
       /\ SessionOnSettle /\ UNCHANGED <<storeVars, pageVars, formVars>>
  \/ (\E r \in running : Settle(r))
       /\ SessionOnSettle /\ UNCHANGED <<storeVars, pageVars, formVars>>
  \/ (\E i \in 1..Len(timers) : TimerFire(i))
       /\ SessionQuiet /\ UNCHANGED <<storeVars, pageVars, formVars>>
  \/ Tick /\ SessionQuiet /\ UNCHANGED <<storeVars, pageVars, formVars>>

SpecSession == InitSession /\ [][NextSession]_vars

\* the view in a browser that has speech synthesis and speech recognition,
\* with the voice button
InitVoice ==
  /\ InitSession
  /\ view.synthSupported
  /\ view.recSupported

NextVoice ==
  \/ NextSession
  \/ (\E endFires \in BOOLEAN : ToggleVoice(endFires))
       /\ GatewayQuiet /\ UNCHANGED <<storeVars, pageVars, formVars>>

\* the 100 ms timer of a handler that has responded fires
SpeakTimerFires ==
  (\E i \in 1..Len(view.speakTimers) : SpeakTimer(i))
    /\ GatewayQuiet /\ UNCHANGED <<storeVars, pageVars, formVars>>

\* the utterance is spoken to its end
UtteranceEnds ==
  SpeechEnds /\ GatewayQuiet /\ UNCHANGED <<storeVars, pageVars, formVars>>

\* timers fire and an utterance that is not cut off ends
SpecVoice ==
  /\ InitVoice
  /\ [][NextVoice]_vars
  /\ WF_vars(SpeakTimerFires)
  /\ WF_vars(UtteranceEnds)

InitApp ==
  /\ envKey = <<"k">>
  /\ sessionKey = NoKey
  /\ apiKey = initApiKey(envKey)
  /\ usage = 0
  /\ GatewayIdle
  /\ hasStore \in BOOLEAN
  /\ isLocalhost \in BOOLEAN
  /\ AppIdle
  /\ SessionIdle
  /\ FormIdle

NextApp ==
  \/ Mount
  \/ \E role \in Roles, skillLevel \in SkillLevels,
        jobDescription \in JobDescriptions, localOk \in BOOLEAN :
       StartInterview(role, skillLevel, jobDescription, localOk)
  \/ \E tab \in Tabs : SetActiveTab(tab)
  \/ \E i \in 1..Len(saves), remoteOk \in BOOLEAN, localOk \in BOOLEAN :
       SaveSettle(i, remoteOk, localOk)
  \/ \E sessionId \in SessionIds, blobs \in 0..MaxFragments :
       StoreRecording(sessionId, blobs)
  \/ \E ok \in BOOLEAN, localOk \in BOOLEAN : StoreRecordingResume(ok, localOk)
  \/ \E localOk \in BOOLEAN : StoreRecordingTimeout(localOk)
  \/ \E sessionId \in SessionIds, remoteOk \in BOOLEAN :
       GetSession(sessionId, remoteOk)

SpecApp == InitApp /\ [][NextApp]_vars

\* the page from its mount to the feedback tab and beyond: setup, the view's
\* fragments and completion calls, the awaited storage operations
NextComplete ==
  \/ Mount
  \/ \E role \in Roles, skillLevel \in SkillLevels, localOk \in BOOLEAN :
       StartInterview(role, skillLevel, "", localOk)
  \/ \E tab \in Tabs : SetActiveTab(tab)
  \/ \E i \in 1..Len(saves), remoteOk \in BOOLEAN, localOk \in BOOLEAN :
       SaveSettle(i, remoteOk, localOk)
  \/ \E ok \in BOOLEAN, localOk \in BOOLEAN : StoreRecordingResume(ok, localOk)
  \/ \E localOk \in BOOLEAN : StoreRecordingTimeout(localOk)
  \/ RecordFragment
  \/ \E feedback \in Feedbacks, localOk \in BOOLEAN :
       CompleteInterview(feedback, localOk)

SpecComplete == InitApp /\ [][NextComplete]_vars

\* the deployed page: not served from localhost, with or without a
\* configured remote store
InitPage ==
  /\ InitApp
  /\ isLocalhost = FALSE

\* the steps of NextComplete without the 5000 ms timer of the localhost
\* race, which the deployed page never sets
NextPage ==
  \/ Mount
  \/ \E role \in Roles, skillLevel \in SkillLevels, localOk \in BOOLEAN :
       StartInterview(role, skillLevel, "", localOk)
  \/ \E tab \in Tabs : SetActiveTab(tab)
  \/ \E i \in 1..Len(saves), remoteOk \in BOOLEAN, localOk \in BOOLEAN :
       SaveSettle(i, remoteOk, localOk)
  \/ \E ok \in BOOLEAN, localOk \in BOOLEAN : StoreRecordingResume(ok, localOk)
  \/ RecordFragment
  \/ \E feedback \in Feedbacks, localOk \in BOOLEAN :
       CompleteInterview(feedback, localOk)

SpecPage == InitPage /\ [][NextPage]_vars

\* the stored sessions: the page saves, callers read and clear
NextStore ==
  \/ Mount
  \/ \E role \in Roles, skillLevel \in SkillLevels,
        jobDescription \in JobDescriptions, localOk \in BOOLEAN :
       StartInterview(role, skillLevel, jobDescription, localOk)
  \/ \E tab \in Tabs : SetActiveTab(tab)
  \/ \E i \in 1..Len(saves), remoteOk \in BOOLEAN, localOk \in BOOLEAN :
       SaveSettle(i, remoteOk, localOk)
  \/ \E sessionId \in SessionIds, remoteOk \in BOOLEAN :
       GetSession(sessionId, remoteOk)
  \/ \E remoteOk \in BOOLEAN : GetAllSessions(remoteOk)
  \/ \E remoteOk \in BOOLEAN : ClearSessions(remoteOk)

SpecStore == InitPage /\ [][NextStore]_vars

\* the page has rendered and shows the setup tab with the form; the build
\* may carry a key
InitSetup ==
  /\ envKey \in {NoKey, <<"k">>}
  /\ sessionKey = NoKey
  /\ apiKey = initApiKey(envKey)
  /\ usage = 0
  /\ GatewayIdle
  /\ hasStore \in BOOLEAN
  /\ isLocalhost = FALSE
  /\ AppIdle
  /\ SessionIdle
  /\ setup = SetupAtMount(NoSetup, hasGeminiApiKey)
  /\ applied = NoApplied

NextSetup ==
  \/ Mount
  \/ \E key \in KeyInputs : SetGeminiApiKeyState(key)
  \/ \E role \in Roles, skillLevel \in SkillLevels,
        jobDescription \in JobDescriptions, localOk \in BOOLEAN :
       HandleStart(role, skillLevel, jobDescription, localOk)
  \/ \E resp \in ProbeResponses, localOk \in BOOLEAN : ProbeSettles(resp, localOk)
  \/ \E tab \in Tabs : ShowTab(tab)
  \/ \E i \in 1..Len(saves), remoteOk \in BOOLEAN, localOk \in BOOLEAN :
       SaveSettle(i, remoteOk, localOk)

SpecSetup == InitSetup /\ [][NextSetup]_vars

(***************************************************************************)
(* getDefaultQuestion (webrtc-utils.ts 519-539) and the result of          *)
(* generateInterviewFeedback for one response, as functions of their       *)
(* inputs.  A job description is the sequence of its words; Math.random()  *)
(* is a number of tenths in 0..9.                                          *)
(***************************************************************************)
\* String.prototype.toLowerCase, word by word
toLowerCase(text) ==
  [i \in 1..Len(text) |->
     CASE text[i] \in {"Software", "SOFTWARE"} -> "software"
       [] text[i] = "Engineer" -> "engineer"
       [] text[i] = "Builds" -> "builds"
       [] OTHER -> text[i]]

\* String.prototype.includes for a word
includes(text, word) == \E i \in 1..Len(text) : text[i] = word

defaultRole(jobDescription) ==
  IF includes(toLowerCase(jobDescription), "software")
  THEN "software engineering"
  ELSE "general"

\* the ten templates of lines 521-532 with the role filled in
defaultQuestions(role) == [k \in 1..10 |-> Question(k, role)]

FixedQuestion == Question(0, "")

OtherQuestion == Question(11, "")

\* Array.prototype.filter: the elements that satisfy keep, in their order
RECURSIVE filter(_, _)
filter(list, asked) ==
  IF list = <<>> THEN <<>>
  ELSE IF Head(list) \notin asked
       THEN <<Head(list)>> \o filter(Tail(list), asked)
       ELSE filter(Tail(list), asked)

\* Math.floor(Math.random() * length), Math.random() = random / 10
randomIndex(random, length) == (random * length) \div 10

getDefaultQuestionNoFilter(jobDescription, previousQuestions, random) ==
  LET availableQuestions == defaultQuestions(defaultRole(jobDescription))
      i == randomIndex(random, Len(availableQuestions))
  IN  IF i + 1 \in 1..Len(availableQuestions)
      THEN availableQuestions[i + 1]
      ELSE FixedQuestion

\* previousQuestions is read with includes only: the set of its elements
getDefaultQuestion(jobDescription, previousQuestions, random) ==
  LET availableQuestions ==
        filter(defaultQuestions(defaultRole(jobDescription)), previousQuestions)
      i == randomIndex(random, Len(availableQuestions))
  IN  IF i + 1 \in 1..Len(availableQuestions)
      THEN availableQuestions[i + 1]
      ELSE FixedQuestion

JobTexts ==
  {<<>>, <<"Senior", "Software", "Engineer">>, <<"Builds", "the", "storefront">>}

\* questions a conversation may hold: the pool of one role, a question of
\* the other pool, the fixed sentence and a generated question
AskedCandidates ==
  {Question(k, "software engineering") : k \in 1..10}
    \cup {Question(1, "general"), FixedQuestion, OtherQuestion}

Randoms == 0..9

\* overallScore fields the remote may send
ScoreInputs == {-1, 0, 7, 10, 11}

FeedbackResponses ==
  Responses \cup {[status |-> 200, kind |-> "json", score |-> s] : s \in ScoreInputs}

\* the first attempt of a feedback request, its fetch under way
FirstFeedbackAttempt ==
  Attempt(NewRun([id |-> 1, kind |-> "feedback", atQuota |-> FALSE]), 0).r

FnInputs ==
  {[NoApplied EXCEPT !.fn = "getDefaultQuestion", !.pc = "input",
                     !.jobDescription = jd, !.previousQuestions = prev] :
     jd \in JobTexts, prev \in SUBSET AskedCandidates}
  \cup {[NoApplied EXCEPT !.fn = "generateInterviewFeedback", !.pc = "input",
                          !.resp = resp] : resp \in FeedbackResponses}

GetDefaultQuestion(random) ==
  /\ applied.fn = "getDefaultQuestion"
  /\ applied.pc = "input"
  /\ applied' = [applied EXCEPT
                   !.pc = "result",
                   !.random = random,
                   !.question = getDefaultQuestion(applied.jobDescription,
                                                   applied.previousQuestions,
                                                   random)]
  /\ UNCHANGED <<gatewayVars, storeVars, pageVars, sessionVars, setup>>

\* makeRequest of generateInterviewFeedback from the settled fetch on
FeedbackOfResponse ==
  /\ applied.fn = "generateInterviewFeedback"
  /\ applied.pc = "input"
  /\ LET r == FeedbackOnResponse(FirstFeedbackAttempt, applied.resp)
     IN  applied' = [applied EXCEPT
                       !.pc = IF r.pc = "returned" THEN "result" ELSE "wait",
                       !.feedback = r.out.result]
  /\ UNCHANGED <<gatewayVars, storeVars, pageVars, sessionVars, setup>>

InitFn ==
  /\ envKey = <<"k">>
  /\ sessionKey = NoKey
  /\ apiKey = initApiKey(envKey)
  /\ usage = 0
  /\ GatewayIdle
  /\ hasStore = TRUE
  /\ isLocalhost = FALSE
  /\ AppIdle
  /\ SessionIdle
  /\ setup = NoSetup
  /\ applied \in FnInputs

NextFn ==
  \/ \E random \in Randoms : GetDefaultQuestion(random)
  \/ FeedbackOfResponse

SpecFn == InitFn /\ [][NextFn]_vars

NextGateway ==
  \/ (\E key \in KeyInputs : SetGeminiApiKey(key))
       /\ UNCHANGED <<storeVars, pageVars, sessionVars, formVars>>
  \/ (\E resp \in ProbeResponses : ValidateApiKey(resp))
       /\ UNCHANGED <<storeVars, pageVars, sessionVars, formVars>>
  \/ GenerateInterviewQuestion
       /\ UNCHANGED <<storeVars, pageVars, sessionVars, formVars>>
  \/ (\E transcript \in Transcripts : GenerateInterviewFeedback(transcript))
       /\ UNCHANGED <<storeVars, pageVars, sessionVars, formVars>>
  \/ (\E r \in running, resp \in Responses : Respond(r, resp))
       /\ UNCHANGED <<storeVars, pageVars, sessionVars, formVars>>
  \/ (\E r \in running : Retry(r))
       /\ UNCHANGED <<storeVars, pageVars, sessionVars, formVars>>
  \/ (\E r \in running : Settle(r))
       /\ UNCHANGED <<storeVars, pageVars, sessionVars, formVars>>
  \/ (\E i \in 1..Len(timers) : TimerFire(i))
       /\ UNCHANGED <<storeVars, pageVars, sessionVars, formVars>>
  \/ Tick /\ UNCHANGED <<storeVars, pageVars, sessionVars, formVars>>

InitSpec ==
  /\ InitGateway
  /\ hasStore = TRUE
  /\ isLocalhost = FALSE
  /\ AppIdle
  /\ SessionIdle
  /\ FormIdle

Spec == InitSpec /\ [][NextGateway]_vars

(***************************************************************************)
(* Properties of the LLM Gateway.                                          *)
(***************************************************************************)
\* some answer of the transcript holds a character that is not whitespace
SomeAnswerHasText(transcript) ==
  \E i \in 1..Len(transcript) : \E j \in 1..Len(transcript[i]) : transcript[i][j] # " "

\* the call of the last step went through to queueRequest
ReachedQueue ==
  /\ lastCall.id # 0
  /\ lastCall.keyed
  /\ lastCall.kind = "feedback" => SomeAnswerHasText(lastCall.transcript)

\* a 429 whose body could be read
Is429(resp) == resp.status = 429 /\ resp.kind # "unreadable"

\* a 2xx response carrying a usable body
IsSuccess(kind, resp) ==
  /\ resp.status = 200
  /\ IF kind = "question" THEN resp.kind \in {"text", "json"} ELSE resp.kind = "json"

LongWaits(waits) == Cardinality({i \in 1..Len(waits) : waits[i] = longRetryDelay})

\* C1: once today's ledger count has reached dailyQuota, a question call that
\* has a credential and is admitted to the queue issues no network request
\* and resolves with the fallback question.
C1_QuotaReachedFallback ==
  /\ \A r \in running :
       (r.kind = "question" /\ r.atQuota) =>
         /\ r.net = 0
         /\ r.pc = "returned"
         /\ r.out = [outcome |-> "return", result |-> DefaultQuestion]
  /\ (done.kind = "question" /\ done.executed /\ done.atQuota) =>
       /\ done.net = 0
       /\ done.outcome = "resolved"
       /\ done.result = DefaultQuestion

C1_Witness ==
  /\ done.kind = "question"
  /\ done.executed
  /\ done.atQuota
  /\ done.result = DefaultQuestion

\* C2: with today's ledger count at dailyQuota - 1, the next question call
\* (the one that brings the count to the quota) still issues a network
\* request.
C2_ThresholdCallUsesNetwork ==
  (done.kind = "question" /\ done.executed /\ done.usageAtStart = dailyQuota - 1) =>
    done.net >= 1

\* C3: a request that reaches queueRequest while the queue holds maxQueueSize
\* entries is rejected at once as overloaded; it is never executed (no network
\* request, no ledger increment) and the queue is left as it was.
C3_OverloadRejected ==
  (ReachedQueue /\ Len(lastCall.queueBefore) >= maxQueueSize) =>
    /\ done = Unexecuted(lastCall.id, lastCall.kind, "rejected", "overloaded", NoResult)
    /\ requestQueue = lastCall.queueBefore
    /\ usage = lastCall.usageBefore
    /\ \A r \in running : r.id # lastCall.id
    /\ lastDispatched # lastCall.id

C3_Witness ==
  /\ ReachedQueue
  /\ Len(lastCall.queueBefore) = maxQueueSize
  /\ done.reason = "overloaded"

\* C4: requests are dispatched in enqueue order: no request is taken from the
\* queue while one enqueued before it is still waiting (ids are given in
\* enqueue order).
C4_Fifo ==
  /\ \A i \in 1..Len(requestQueue) : requestQueue[i].id > lastDispatched
  /\ \A r \in running : r.id <= lastDispatched
  /\ \A i, j \in 1..Len(requestQueue) : i < j => requestQueue[i].id < requestQueue[j].id

C4_Witness ==
  /\ lastDispatched = 3
  /\ Len(requestQueue) = 1
  /\ running # {}

C7_NoAnswersShortCircuit ==
  (lastCall.kind = "feedback" /\ ~SomeAnswerHasText(lastCall.transcript)) =>
    /\ done.id = lastCall.id
    /\ done.kind = "feedback"
    /\ done.outcome = "resolved"
    /\ done.result.overallScore = 0
    /\ ~done.executed
    /\ done.net = 0
    /\ requestQueue = lastCall.queueBefore
    /\ usage = lastCall.usageBefore
    /\ \A r \in running : r.id # lastCall.id

C7_Witness ==
  /\ lastCall.kind = "feedback"
  /\ lastCall.keyed
  /\ lastCall.transcript = << <<" ">> >>
  /\ done.result = NoAnswersFeedback

\* C8: a question call waits the long delay at most once and makes at most
\* two attempts; after a 429 it waits the long delay and retries once, and if
\* the retry does not succeed it resolves with the fallback question.
C8_LongRetryOnce ==
  /\ \A r \in running :
       r.kind = "question" =>
         /\ LongWaits(r.waits) <= 1
         /\ r.attempts <= maxRetries + 1
         /\ (r.pc = "wait" /\ Is429(r.resps[Len(r.resps)])) =>
              r.waits = <<longRetryDelay>>
  /\ (done.kind = "question" /\ done.executed) =>
       /\ LongWaits(done.waits) <= 1
       /\ done.attempts <= maxRetries + 1
       /\ (done.resps # <<>> /\ Is429(done.resps[1])) =>
            /\ done.waits = <<longRetryDelay>>
            /\ done.attempts = 2
            /\ done.outcome = "resolved"
            /\ (Len(done.resps) = 1 \/ ~IsSuccess("question", done.resps[Len(done.resps)])) =>
                 done.result = DefaultQuestion

C8_Witness ==
  /\ done.kind = "question"
  /\ Len(done.resps) = 2
  /\ Is429(done.resps[1])
  /\ Is429(done.resps[2])
  /\ done.waits = <<longRetryDelay>>
  /\ done.result = DefaultQuestion

(***************************************************************************)
(* Properties of the Persistence Gateway and of the Interview page.        *)
(***************************************************************************)
\* C9: a storeRecording call that has settled has resolved, never rejected,
\* and when it was given at least one fragment the reference it resolved with
\* is not the empty string, whichever path it took: store not configured,
\* timeout of the localhost race, or an error of any remote step.
C9_StoreRecordingResolves ==
  stored.outcome # "none" =>
    /\ stored.outcome = "resolved"
    /\ (stored.blobs > 0 => Len(stored.ref) > 0)

\* a production call with fragments whose last remote step, the setDoc of the
\* session document, failed
C9_Witness ==
  /\ stored.outcome = "resolved"
  /\ stored.blobs > 0
  /\ stored.via = "setDoc"
  /\ stored.ref = ObjectURL

\* C10: startInterview with a session present leaves the page on the "session"
\* tab with the chosen role, level and description in the session, and has
\* handed saveSession a record of that session with transcript [] and
\* isCompleted false, which is now awaiting the remote store or was written to
\* the local store; when that save settles, even by rejecting, the tab and the
\* session are what they were.
C10_StartInterview ==
  /\ (pageEvent.kind = "startInterview" /\ pageEvent.sessionBefore # NullSession) =>
       /\ activeTab = "session"
       /\ session = [pageEvent.sessionBefore EXCEPT
                       !.role = pageEvent.save.role,
                       !.skillLevel = pageEvent.save.skillLevel,
                       !.jobDescription = pageEvent.save.jobDescription,
                       !.isCompleted = FALSE]
       /\ pageEvent.save.sessionId = session.sessionId
       /\ pageEvent.save.role \in Roles
       /\ pageEvent.save.transcript = <<>>
       /\ pageEvent.save.isCompleted = FALSE
       /\ pageEvent.outcome \in {"pending", "resolved", "rejected"}
       /\ (pageEvent.outcome = "pending" =>
             /\ saves # <<>>
             /\ saves[Len(saves)].data = pageEvent.save)
       /\ (pageEvent.outcome = "resolved" =>
             localSessions[session.sessionId] = pageEvent.save)
  /\ (pageEvent.kind = "saveSettled" /\ pageEvent.origin = "startInterview") =>
       /\ activeTab = pageEvent.tabBefore
       /\ session = pageEvent.sessionBefore

\* the save of a started interview was refused by the remote store and by the
\* local store, and the page is still on the "session" tab
C10_Witness ==
  /\ pageEvent.kind = "saveSettled"
  /\ pageEvent.origin = "startInterview"
  /\ pageEvent.outcome = "rejected"
  /\ activeTab = "session"
  /\ session.role \in Roles

(***************************************************************************)
(* Properties of the InterviewSession view.                                *)
(***************************************************************************)
IsPrefix(a, b) == Len(a) <= Len(b) /\ SubSeq(b, 1, Len(a)) = a

HasTurn(conversation, turn) ==
  \E i \in 1..Len(conversation) : conversation[i] = turn

\* C11: an utterance handed to the duplicate check whose text equals the
\* last processed utterance adds no conversation turn and makes no gateway
\* call; one that differs is processed: it becomes the last processed
\* utterance, generateInterviewQuestion is called and, while the view is
\* mounted, its user turn is in the conversation.
C11_DuplicateIgnored ==
  sessionEvent.kind = "utterance" =>
    IF sessionEvent.text = sessionEvent.before.lastSpeech
    THEN /\ view.conversation = sessionEvent.before.conversation
         /\ view.lastSpeech = sessionEvent.before.lastSpeech
         /\ ~sessionEvent.called
         /\ lastCall = NoCall
         /\ \A c \in inFlight : c.id < nextId
         /\ view.speakTimers = sessionEvent.before.speakTimers
    ELSE /\ view.lastSpeech = sessionEvent.text
         /\ sessionEvent.called
         /\ lastCall.kind = "question"
         /\ (done.outcome # "rejected" =>
               \E c \in inFlight : c.id = lastCall.id /\ c.text = sessionEvent.text)
         /\ (sessionEvent.before.phase = "mounted" =>
               HasTurn(view.conversation, Turn("user", sessionEvent.text)))

\* the same text was recognized again after it had been processed
C11_Witness ==
  /\ sessionEvent.kind = "utterance"
  /\ sessionEvent.text = "I'm doing well thanks"
  /\ sessionEvent.before.lastSpeech = "I'm doing well thanks"
  /\ sessionEvent.before.phase = "mounted"
  /\ Len(view.conversation) = 2

\* C12: when the response timer fires while the mounted view is waiting for a
\* response and not listening, the view calls generateInterviewQuestion for a
\* follow-up turn.
C12_SilenceFollowUp ==
  (/\ sessionEvent.kind = "silence"
   /\ sessionEvent.before.phase = "mounted"
   /\ sessionEvent.before.waitingForResponse
   /\ ~sessionEvent.before.isListening) =>
    /\ sessionEvent.called
    /\ lastCall.kind = "question"

\* C13: a view has at most one generateAIResponse call awaited at any time,
\* and the gateway holds at most one request, queued or executing.
C13_OneInFlight ==
  /\ Cardinality(inFlight) <= 1
  /\ Cardinality(running) + Len(requestQueue) <= 1
  /\ \A r \in running : \E c \in inFlight : c.id = r.id

\* the second call of a view is awaited, the first one having settled
C13_Witness ==
  /\ Cardinality(inFlight) = 1
  /\ \E c \in inFlight : c.id = 2
  /\ view.phase = "mounted"
  /\ view.isProcessing

\* C14: a step of the mounted view (an utterance, a silence timeout, a
\* generated turn) leaves the previous conversation a prefix of the new one,
\* and the transcript of the session is never shortened.
C14_ConversationAppendOnly ==
  /\ (sessionEvent.kind \in {"utterance", "silence", "settled"}
       /\ sessionEvent.before.phase = "mounted") =>
       IsPrefix(sessionEvent.before.conversation, view.conversation)
  /\ session.transcript = <<>>


\* C18: the cleanup run at unmount stops every track of a stream the view has
\* acquired, stops the recognizer, cancels the speech synthesis and clears
\* the response timer (a timer set by an end event the cancel itself
\* dispatches is one the cleanup could not clear).
C18_CleanupStopsAll ==
  sessionEvent.kind = "unmount" =>
    /\ ~view.tracksLive
    /\ ~isActive(view)
    /\ ~synth.speaking
    /\ (sessionEvent.note # "endFired" => view.responseTimeout # "pending")

\* C19: a call in flight when the view is unmounted settles without any
\* change of the view's state, and the timer its handler sets plays no speech.
C19_ResultDiscarded ==
  /\ (sessionEvent.kind = "settled" /\ sessionEvent.note = "inFlightAtStop") =>
       /\ view.conversation = sessionEvent.before.conversation
       /\ view.waitingForResponse = sessionEvent.before.waitingForResponse
       /\ view.isListening = sessionEvent.before.isListening
       /\ view.isProcessing = sessionEvent.before.isProcessing
  /\ (sessionEvent.kind = "speak" /\ sessionEvent.note = "inFlightAtStop") =>
       ~sessionEvent.spoke


(***************************************************************************)
(* Properties of the completion of an interview and of the stored session. *)
(***************************************************************************)
\* C15: once the session has a feedback, no step assigns the field another
\* value.
C15_FeedbackSetOnce ==
  [][session.feedback # "undefined" => session'.feedback = session.feedback]_vars

C17_FeedbackTerminal ==
  [][activeTab = "feedback" =>
       (activeTab' = "feedback" \/ session'.sessionId # session.sessionId)]_vars

\* C20: getSession returns the record of the saveSession call that completed
\* last for the sessionId, whether or not the remote store answers.
C20_SaveLoadRoundTrip ==
  (pageEvent.kind = "getSession" /\ lastSaved[pageEvent.origin] # NoDoc) =>
    pageEvent.save = lastSaved[pageEvent.origin]

(***************************************************************************)
(* Properties of the dispatcher, of the retry policy and of the ledger.    *)
(***************************************************************************)
\* C22: at most one queued request is executing at any time: inProgress is 0
\* or 1 (and so never above requestsPerMinute), and whenever inProgress > 0
\* the dispatch lock is held; the requests executing are as many as
\* inProgress says.
C22_OneExecuting ==
  /\ inProgress \in {0, 1}
  /\ inProgress <= requestsPerMinute
  /\ inProgress > 0 => queueLock
  /\ Cardinality(running) = inProgress

\* a request waits in the queue while another one executes
C22_Witness ==
  /\ inProgress = 1
  /\ queueLock
  /\ Len(requestQueue) > 0
  /\ \E r \in running : r.pc = "fetch"

(***************************************************************************)
(* The gateway under the scheduling of the browser: a fetch settles (with  *)
(* a response or a failure), a retry delay elapses, and the callbacks of a *)
(* settled promise run.                                                    *)
(***************************************************************************)
FetchSettles ==
  (\E r \in running, resp \in Responses : Respond(r, resp))
    /\ UNCHANGED <<storeVars, pageVars, sessionVars, formVars>>

RetryDelayElapses ==
  (\E r \in running : Retry(r))
    /\ UNCHANGED <<storeVars, pageVars, sessionVars, formVars>>

PromiseSettles ==
  (\E r \in running : Settle(r))
    /\ UNCHANGED <<storeVars, pageVars, sessionVars, formVars>>

SpecLive ==
  /\ Spec
  /\ WF_vars(FetchSettles)
  /\ WF_vars(RetryDelayElapses)
  /\ WF_vars(PromiseSettles)

\* the waits before the retries of responses that are neither a success nor
\* a 429 are baseRetryDelay * 2^attempt
BackoffWaits(resps, waits) ==
  \A i \in 1..Len(waits) :
    (i <= Len(resps) /\ resps[i].status \notin {200, 429}) =>
      waits[i] = baseRetryDelay * Pow2(i - 1)

\* the request with this id has been dispatched and has not settled
Dispatched(id) == \E r \in running : r.id = id

\* the request with this id settles in this state, resolved with generated or
\* fallback content after at most maxRetries + 1 network attempts
Terminated(id) ==
  /\ done.id = id
  /\ done.executed
  /\ done.outcome = "resolved"
  /\ done.result \in {GeneratedQuestion, Fallback(done.kind)}
                       \cup {[src |-> "parsed", overallScore |-> s] : s \in RemoteScores}
  /\ done.net <= maxRetries + 1
  /\ BackoffWaits(done.resps, done.waits)

\* C23: every dispatched generateInterviewQuestion / generateInterviewFeedback
\* request terminates: it never makes more than maxRetries + 1 (= 2) network
\* attempts, it waits baseRetryDelay * 2^attempt before the retry of a
\* response that is neither a success nor a 429, and it eventually resolves
\* with generated or fallback content.
C23_Terminates ==
  /\ [](\A r \in running : r.net <= maxRetries + 1 /\ BackoffWaits(r.resps, r.waits))
  /\ \A id \in 1..MaxCalls : Dispatched(id) ~> Terminated(id)

\* a feedback request whose first attempt got a 500 was retried after
\* baseRetryDelay and has resolved
C23_Witness ==
  /\ done.executed
  /\ done.kind = "feedback"
  /\ done.net = 2
  /\ done.resps[1].status = 500
  /\ done.waits = <<baseRetryDelay>>
  /\ done.outcome = "resolved"

\* the fetch failed at network level, or the body of the response could not
\* be read
NetworkFailure(resp) == resp.status = 0 \/ resp.kind = "unreadable"

\* C24: a network-level failure of a generation request (the fetch fails, or
\* the response body cannot be read) ends the request at once with the
\* fallback content, for questions and for feedback alike: the failure is the
\* last response of the request, no wait follows it and no further request
\* is made.
C24_NetworkFailureFallsBack ==
  /\ \A r \in running : \A i \in 1..Len(r.resps) : ~NetworkFailure(r.resps[i])
  /\ done.executed =>
       \A i \in 1..Len(done.resps) :
         NetworkFailure(done.resps[i]) =>
           /\ i = Len(done.resps)
           /\ done.net = i
           /\ Len(done.waits) = i - 1
           /\ done.outcome = "resolved"
           /\ done.result = Fallback(done.kind)

\* the first fetch of a feedback request failed and the request resolved
\* with the default feedback, no wait made
C24_Witness ==
  /\ done.executed
  /\ done.kind = "feedback"
  /\ done.resps = <<[status |-> 0, kind |-> "unreadable", score |-> 0]>>
  /\ done.waits = <<>>
  /\ done.net = 1
  /\ done.result = getDefaultFeedback

\* C25: a 401 response to a generation request is not retried: after a 401
\* the request makes no further network request, so a 401 is the last
\* response of its request and no request waits for a retry after one.
C25_No401Retry ==
  /\ \A r \in running : \A i \in 1..Len(r.resps) : r.resps[i].status # 401
  /\ done.executed =>
       \A i \in 1..Len(done.resps) : done.resps[i].status = 401 => i = Len(done.resps)

C27_MinSpacing ==
  [][lastDispatched' # lastDispatched => sinceLast >= minInterval]_vars

\* this step begins an attempt (a call of makeRequest): the dispatch of a
\* request, or the retry of the running one after its delay
AttemptBegins ==
  \/ lastDispatched' # lastDispatched
  \/ \E r \in running : r.pc = "wait" /\ r \notin running'

\* C28 (as claimed): today's count is incremented by exactly one per
\* dispatched request: when a dispatched request settles the count is one
\* above the count at its dispatch.
C28_OnePerDispatchedRequest ==
  done.executed => usage = done.usageAtStart + 1

\* C28: today's count never decreases and changes only when an attempt of a
\* dispatched request begins (its dispatch, and each retry), by exactly one
\* per attempt; calls that are rejected, queued or short-circuited (missing
\* credential, no answers) and validation probes leave it unchanged; so when
\* a dispatched request settles, the count has grown by the number of its
\* attempts.
C28_LedgerCountsAttempts ==
  [][/\ usage' >= usage
     /\ usage' = usage + (IF AttemptBegins THEN 1 ELSE 0)
     /\ done'.executed => usage' = done'.usageAtStart + done'.attempts]_vars

\* a dispatched request that was retried has settled: the count has grown
\* by two
C28_Witness ==
  /\ done.executed
  /\ done.attempts = 2
  /\ usage = done.usageAtStart + 2

(***************************************************************************)
(* Properties of the setup flow.                                           *)
(***************************************************************************)
\* the probe of a handleStart call settles in this step
ProbeEnds == setup.probing /\ ~setup'.probing

\* C21: in the setup flow the candidate credential is committed (stored in
\* apiKey and in the session store, where the gateway reads it) only in the
\* step in which its validation probe settled with success, and it is the
\* probed key that is committed; when the probe fails (401, 429, another
\* non-success status, an unreadable body or a network error) the stored
\* credential stays as it was and the page does not leave the setup tab: no
\* session is started and nothing is saved.  While no credential is stored,
\* the page leaves the setup tab only through a successful probe.
C21_CommitAfterValidation ==
  [][/\ (apiKey' # apiKey \/ sessionKey' # sessionKey) =>
          /\ ProbeEnds
          /\ setup'.lastProbe.status = 200
          /\ apiKey' = setup.closure.key
          /\ sessionKey' = setup.closure.key
     /\ (ProbeEnds /\ setup'.lastProbe.status # 200) =>
          /\ UNCHANGED <<apiKey, sessionKey>>
          /\ UNCHANGED <<activeTab, session, saves, localSessions>>
     /\ (~hasGeminiApiKey /\ activeTab = "setup" /\ activeTab' # "setup") =>
          /\ ProbeEnds
          /\ setup'.lastProbe.status = 200]_vars

\* the probe of a typed key was answered with 429: no credential is stored
\* and the setup tab is still shown
C21_Witness ==
  /\ setup.lastProbe.status = 429
  /\ ~setup.probing
  /\ setup.geminiApiKey = <<"k", " ">>
  /\ setup.notice = "not validated"
  /\ apiKey = NoKey
  /\ sessionKey = NoKey
  /\ activeTab = "setup"
  /\ session.role = "undefined"

(***************************************************************************)
(* Properties of the fallback question and of the parsed feedback.         *)
(***************************************************************************)
\* the questions of the pool for this job description
PoolOf(jobDescription) ==
  {defaultQuestions(defaultRole(jobDescription))[k] : k \in 1..10}

\* C29: getDefaultQuestion returns a question of the ten-question pool that
\* is not in previousQuestions whenever there is one; it returns the fixed
\* sentence exactly when every question of the pool occurs in
\* previousQuestions; it never returns a pool question that was already
\* asked.
C29_FallbackQuestionFresh ==
  (applied.fn = "getDefaultQuestion" /\ applied.pc = "result") =>
    LET pool == PoolOf(applied.jobDescription)
        asked == applied.previousQuestions
    IN  /\ Cardinality(pool) = 10
        /\ pool \ asked # {} => applied.question \in pool \ asked
        /\ applied.question = FixedQuestion <=> pool \subseteq asked
        /\ ~(applied.question \in pool /\ applied.question \in asked)

\* with nine of the ten questions already asked, the remaining one is
\* returned
C29_Witness ==
  /\ applied.fn = "getDefaultQuestion"
  /\ applied.pc = "result"
  /\ applied.jobDescription = <<"Senior", "Software", "Engineer">>
  /\ Cardinality(PoolOf(applied.jobDescription) \ applied.previousQuestions) = 1
  /\ applied.question = Question(10, "software engineering")
  /\ applied.random = 9

\* C30: every feedback that generateInterviewFeedback returns for a response
\* of the remote has an overallScore that is an integer in 0..10, whatever
\* the overallScore field of the response carries.
C30_ScoreInRange ==
  (applied.fn = "generateInterviewFeedback" /\ applied.pc = "result") =>
    applied.feedback.overallScore \in 0..10

(***************************************************************************)
(* Properties of the session record: transcript, completion, identity.     *)
(***************************************************************************)
\* C31: every dialogue turn the view has generated is in the transcript of
\* the session as well as in the conversation: once a handler has appended
\* the assistant's turn it awaited, the session transcript is not empty.
C31_TurnReachesTranscript ==
  (/\ sessionEvent.kind = "settled"
   /\ Len(view.conversation) > Len(sessionEvent.before.conversation))
    => session.transcript # <<>>

\* C32: whenever a handler of the view has entered GeneratingResponse and the
\* gateway call it awaits has settled (resolved or rejected), the view
\* eventually is back in AwaitingUserSpeech (waitingForResponse, not
\* processing), whatever the voice button was set to - unless the view is
\* stopped first.
C32_ReturnsToAwaiting ==
  [](sessionEvent.kind = "settled" /\ view.phase = "mounted"
       => <>(\/ view.phase # "mounted"
             \/ (view.waitingForResponse /\ ~view.isProcessing)))

C34_SetupFieldsWrittenOnce ==
  [][session.role # "undefined" =>
       /\ session'.role = session.role
       /\ session'.skillLevel = session.skillLevel
       /\ session'.jobDescription = session.jobDescription]_vars

\* C35: the sessionId the page created at mount never changes: every step
\* (startInterview, completeInterview on each of its paths, the storage
\* operations they await) preserves it, and every record handed to
\* saveSession - pending, just passed, or stored - carries that sessionId.
C35_SessionIdImmutable ==
  /\ [][session # NullSession => session'.sessionId = session.sessionId]_vars
  /\ [](session # NullSession => session.sessionId \in SessionIds)
  /\ [](\A i \in 1..Len(saves) : saves[i].data.sessionId = session.sessionId)
  /\ [](pageEvent.save # NoDoc => pageEvent.save.sessionId = session.sessionId)
  /\ [](\A id \in SessionIds :
          /\ localSessions[id] # NoDoc =>
               localSessions[id].sessionId = session.sessionId
          /\ remoteDocs[id] # NoDoc =>
               remoteDocs[id].sessionId = session.sessionId)

\* a completed session has been saved remotely after a start and a
\* completion, one save has failed over to localStorage
C35_Witness ==
  /\ session.isCompleted
  /\ \E id \in SessionIds :
       /\ session.sessionId = id
       /\ remoteDocs[id].isCompleted
       /\ remoteDocs[id].sessionId = id
       /\ localSessions[id] # NoDoc
  /\ pageEvent.kind = "saveSettled"
  /\ pageEvent.origin = "completeInterview"

\* C36: the transition to the feedback tab obtains the feedback after it has
\* attempted to persist the recording and before it marks the session
\* completed: while a completeInterview call still awaits storeRecording, it
\* holds no feedback yet.
C36_FeedbackAfterRecording ==
  \A i \in 1..Len(completions) :
    completions[i].pc = "storeRecording" => completions[i].feedback = "undefined"

(***************************************************************************)
(* Properties of the persistence gateway.                                  *)
(***************************************************************************)
\* C37: storeRecording returns the remote URL whenever the upload and the
\* retrieval of the download URL have both succeeded: a call that got past
\* both resolves with the download URL of the session's recording.
C37_RemoteUrlWhenUploaded ==
  (stored.outcome # "none" /\ stored.via \in {"remote", "getDoc", "setDoc"}) =>
    /\ stored.outcome = "resolved"
    /\ stored.ref = DownloadURL(stored.sessionId)

\* C38: when clearSessions has completed, the sessions saved before are
\* gone: getSession returns null for every sessionId and getAllSessions
\* returns an empty list, with the remote store and with the local fallback,
\* whether the read reaches the remote store or falls back.
C38_ClearedSessionsAbsent ==
  pageEvent.kind = "clearSessions" =>
    \A remoteOk \in BOOLEAN :
      (hasStore \/ remoteOk) =>
        /\ \A id \in SessionIds : getSession(id, remoteOk) = NoDoc
        /\ getAllSessions(remoteOk) = <<>>

(***************************************************************************)
(* The dispatcher under the scheduling of the browser: what SpecLive       *)
(* assumes of a running request, and timers that fire.                     *)
(***************************************************************************)
DispatcherTimerFires ==
  (\E i \in 1..Len(timers) : TimerFire(i))
    /\ UNCHANGED <<storeVars, pageVars, sessionVars, formVars>>

\* the module has a key and the ledger is empty or at the daily quota
InitQueue ==
  /\ InitSpec
  /\ envKey = <<"k">>
  /\ usage \in {0, dailyQuota}

\* callers, running requests, dispatcher timers and the clock
NextQueue ==
  \/ GenerateInterviewQuestion
       /\ UNCHANGED <<storeVars, pageVars, sessionVars, formVars>>
  \/ (\E transcript \in Transcripts : GenerateInterviewFeedback(transcript))
       /\ UNCHANGED <<storeVars, pageVars, sessionVars, formVars>>
  \/ FetchSettles
  \/ RetryDelayElapses
  \/ PromiseSettles
  \/ DispatcherTimerFires
  \/ Tick /\ UNCHANGED <<storeVars, pageVars, sessionVars, formVars>>

SpecQueue ==
  /\ InitQueue
  /\ [][NextQueue]_vars
  /\ WF_vars(FetchSettles)
  /\ WF_vars(RetryDelayElapses)
  /\ WF_vars(PromiseSettles)
  /\ WF_vars(DispatcherTimerFires)

\* the request with this id has been admitted and waits in the queue
Queued(id) == \E i \in 1..Len(requestQueue) : requestQueue[i].id = id

\* the promise of the request with this id settles in this state
SettledNow(id) ==
  /\ done.id = id
  /\ done.executed
  /\ done.outcome \in {"resolved", "rejected"}

\* C39: provided every execute function that was dispatched settles, every
\* admitted request is dispatched and its promise settled, exactly once: a
\* request enters the queue once, leaves it only by being dispatched, leaves
\* the running set only by settling (resolved or rejected) and is then
\* neither queued nor running again, and whenever requests are queued or
\* running the gateway eventually has none left.  The dispatcher is never
\* stuck: a non-empty queue always comes with a running request or a
\* pending dispatcher timer, and the lock is held only while a request runs
\* or a throttle timer is pending.
C39_QueueLive ==
  /\ [](requestQueue # <<>> => (running # {} \/ timers # <<>>))
  /\ [](queueLock =>
          (running # {}
             \/ \E i \in 1..Len(timers) : timers[i].kind = "throttle"))
  /\ [](\A id \in 1..MaxCalls : ~(Queued(id) /\ Dispatched(id)))
  /\ [][\A id \in 1..MaxCalls :
          /\ (Dispatched(id) /\ ~Dispatched(id)') => SettledNow(id)'
          /\ SettledNow(id)' =>
               (Dispatched(id) /\ ~Dispatched(id)' /\ ~Queued(id)')
          /\ (Queued(id) /\ ~Queued(id)') => Dispatched(id)'
          /\ ((~Queued(id) /\ Queued(id)') \/ (~Dispatched(id) /\ Dispatched(id)'))
               => id >= nextId \/ Queued(id)]_vars
  /\ (requestQueue # <<>> \/ running # {})
       ~> (requestQueue = <<>> /\ running = {})

\* a request has just settled while another admitted request waits in the
\* queue: nothing runs, the lock is free, and the drain timer set by the
\* settled request is what will dispatch the waiting one
C39_Witness ==
  /\ done.executed
  /\ requestQueue # <<>>
  /\ running = {}
  /\ ~queueLock
  /\ timers # <<>>
  /\ timers[Len(timers)].kind = "drain"

\* C40: when the remote store is unreachable during the save of the
\* completed session, the user is shown a non-fatal advisory, no error
\* reaches the caller, and the flow goes on: the call ends on the feedback
\* tab with processing over.
C40_RemoteSaveFailureAdvised ==
  (/\ pageEvent.kind = "saveSettled"
   /\ pageEvent.origin = "completeInterview"
   /\ pageEvent.remote = "failed") =>
     /\ pageEvent.toast = "Save Warning"
     /\ activeTab = "feedback"
     /\ ~isProcessing
     /\ completions[pageEvent.completed].pc = "done"

====
